---- MODULE Spec2Model ----
(***************************************************************************)
(* Model of scripts/analyze_tesla_incidents.py: FleetInterpolator          *)
(* (__init__, get_fleet_size, calculate_miles_in_period),                  *)
(* calculate_mpi_between_incidents, MPITrendAnalyzer and main; of          *)
(* merge_scraped_to_fleet_data (scripts/scrape_fleet_data.py), of          *)
(* _extract_with_strategies (scripts/scrape_fleet_growth.py) and of        *)
(* update_app_js (scripts/sync_app_data.py).                               *)
(*                                                                         *)
(* Dates are datetimes at midnight (strptime/to_datetime of a calendar     *)
(* day); a date is modelled as its day number, a timedelta as a number of  *)
(* days.  Python ints are unbounded; Python floats are IEEE-754 doubles    *)
(* and are modelled exactly (53-bit significand, round to nearest, ties to *)
(* even) with arbitrary-precision naturals kept as digit sequences.        *)
(***************************************************************************)
EXTENDS Integers, Sequences, FiniteSets, TLC

VARIABLES
    fleet_snapshots, \* the snapshots argument of FleetInterpolator.__init__
    field,           \* the field argument of FleetInterpolator.__init__
    snapshots,       \* FleetInterpolator.snapshots: sorted <<date, count>> pairs
    excluded_dates,  \* set of date strings (service stoppages)
    daily_miles,     \* daily_miles_per_vehicle
    fleet_size,      \* get_fleet_size calls made so far: date -> returned size
    period_args,     \* <<start, mid, end>> the period calls are made with
    period,          \* calculate_miles_in_period calls: <<start, end>> -> result
    service_start,   \* service_start passed to calculate_mpi_between_incidents
    incidents_df,    \* incidents_df / all_tesla: the frame of the incidents
    results,         \* value returned by calculate_mpi_between_incidents
    analyzer,        \* the MPITrendAnalyzer object
    trend_call,      \* the call made on the analyzer and how it ended
    main,            \* the locals of main and the statement it has reached
    output_file,     \* the content of data/analysis_results.json
    fleet_data_file, \* the content of data/fleet_data.json (FLEET_DATA_FILE)
    merge_calls,     \* the calls of merge_scraped_to_fleet_data made so far
    extraction,      \* the locals of _extract_with_strategies and where it is
    app_js,          \* the content of docs/app.js
    update_calls     \* the calls of update_app_js made so far

\* the state of the scraping and sync scripts
scripts == <<fleet_data_file, merge_calls, extraction, app_js, update_calls>>

vars == <<fleet_snapshots, field, snapshots, excluded_dates, daily_miles,
          fleet_size, period_args, period, service_start, incidents_df, results,
          analyzer, trend_call, main, output_file, scripts>>

(***************************************************************************)
(* Bounds of the model.                                                    *)
(***************************************************************************)
MaxDay == 12
MaxCount == 55
MaxPeriodDay == 3
MaxIncidents == 3
MaxIncidentDay == 3

(***************************************************************************)
(* Arbitrary-precision naturals: little-endian digit sequences in base     *)
(* Base, without leading zero digits (<<>> is 0).                          *)
(***************************************************************************)
Base == 2^15

RECURSIVE BigNorm(_)
BigNorm(n) ==
    IF n = <<>> THEN <<>>
    ELSE IF n[Len(n)] = 0 THEN BigNorm(SubSeq(n, 1, Len(n) - 1))
    ELSE n

RECURSIVE BigFromNat(_)
BigFromNat(k) ==
    IF k = 0 THEN <<>> ELSE <<k % Base>> \o BigFromNat(k \div Base)

RECURSIVE BigToNat(_)
BigToNat(n) ==
    IF n = <<>> THEN 0 ELSE Head(n) + Base * BigToNat(Tail(n))

RECURSIVE BigMulCarry(_, _, _)
BigMulCarry(n, k, carry) ==
    IF n = <<>> THEN BigFromNat(carry)
    ELSE LET v == Head(n) * k + carry
         IN  <<v % Base>> \o BigMulCarry(Tail(n), k, v \div Base)

\* n * k for a natural k < Base
BigMulSmall(n, k) == BigNorm(BigMulCarry(n, k, 0))

RECURSIVE BigAddCarry(_, _, _)
BigAddCarry(a, b, carry) ==
    IF a = <<>> /\ b = <<>> THEN BigFromNat(carry)
    ELSE LET x == IF a = <<>> THEN 0 ELSE Head(a)
             y == IF b = <<>> THEN 0 ELSE Head(b)
             v == x + y + carry
         IN  <<v % Base>> \o BigAddCarry(IF a = <<>> THEN a ELSE Tail(a),
                                         IF b = <<>> THEN b ELSE Tail(b),
                                         v \div Base)

BigAdd(a, b) == BigNorm(BigAddCarry(a, b, 0))

RECURSIVE BigSubBorrow(_, _, _)
BigSubBorrow(a, b, borrow) ==
    IF a = <<>> THEN <<>>
    ELSE LET y == IF b = <<>> THEN 0 ELSE Head(b)
             v == Head(a) - y - borrow
         IN  <<v % Base>> \o BigSubBorrow(Tail(a),
                                          IF b = <<>> THEN b ELSE Tail(b),
                                          IF v < 0 THEN 1 ELSE 0)

\* a - b for a >= b
BigSub(a, b) == BigNorm(BigSubBorrow(a, b, 0))

RECURSIVE NatBitLen(_)
NatBitLen(k) == IF k = 0 THEN 0 ELSE 1 + NatBitLen(k \div 2)

\* number of significant bits of n
BigBitLen(n) ==
    IF n = <<>> THEN 0 ELSE 15 * (Len(n) - 1) + NatBitLen(n[Len(n)])

\* floor(n / 2^k) and n mod 2^k # 0, for 0 <= k
RECURSIVE BigShiftRight(_, _)
BigShiftRight(n, k) ==
    IF n = <<>> \/ k = 0 THEN n
    ELSE IF k >= 15 THEN BigShiftRight(Tail(n), k - 15)
    ELSE BigNorm([i \in 1..Len(n) |->
                    (n[i] \div 2^k)
                    + (IF i < Len(n) THEN (n[i + 1] % 2^k) * 2^(15 - k) ELSE 0)])

RECURSIVE BigLowBitsNonZero(_, _)
BigLowBitsNonZero(n, k) ==
    IF n = <<>> \/ k = 0 THEN FALSE
    ELSE IF k >= 15 THEN Head(n) # 0 \/ BigLowBitsNonZero(Tail(n), k - 15)
    ELSE Head(n) % 2^k # 0

RECURSIVE BigShiftLeft(_, _)
BigShiftLeft(n, k) ==
    IF n = <<>> \/ k = 0 THEN n
    ELSE IF k >= 15 THEN <<0>> \o BigShiftLeft(n, k - 15)
    ELSE BigMulSmall(n, 2^k)

BigIsOdd(n) == n # <<>> /\ Head(n) % 2 = 1

(***************************************************************************)
(* IEEE-754 doubles, non-negative and finite: [m |-> significand (a big    *)
(* natural below 2^53, or exactly 2^53), e |-> exponent], of value         *)
(* m * 2^e.  Exponent range is never left by the values computed here.     *)
(***************************************************************************)
SignificandBits == 53

RECURSIVE NatTrailingZeros(_)
NatTrailingZeros(k) == IF k % 2 = 1 THEN 0 ELSE 1 + NatTrailingZeros(k \div 2)

\* the one representation of n * 2^e with an odd significand (0 is 0 * 2^0),
\* so that equal doubles are equal values of the model
RECURSIVE Canonical(_, _)
Canonical(n, e) ==
    IF n = <<>> THEN [m |-> <<>>, e |-> 0]
    ELSE IF Head(n) = 0 THEN Canonical(Tail(n), e + 15)
    ELSE LET k == NatTrailingZeros(Head(n))
         IN  [m |-> BigShiftRight(n, k), e |-> e + k]

\* The double nearest to n * 2^e (+ a positive amount below one unit of n
\* when sticky), ties to even.
RoundToDouble(n, e, sticky) ==
    LET drop == BigBitLen(n) - SignificandBits
    IN  IF drop <= 0
        THEN Canonical(n, e)  \* representable; sticky arises only with drop > 0
        ELSE LET q     == BigShiftRight(n, drop)
                 guard == BigIsOdd(BigShiftRight(n, drop - 1))
                 rest  == sticky \/ BigLowBitsNonZero(n, drop - 1)
                 up    == guard /\ (rest \/ BigIsOdd(q))
             IN  Canonical(IF up THEN BigAdd(q, <<1>>) ELSE q, e + drop)

\* digits of floor(r * Base^k / t) after the point, most significant first,
\* followed by the final remainder
RECURSIVE LongDivision(_, _, _)
LongDivision(r, t, k) ==
    IF k = 0 THEN <<r>>
    ELSE <<(r * Base) \div t>> \o LongDivision((r * Base) % t, t, k - 1)

\* digits of the quotient kept before rounding: enough for the significand,
\* the guard bit and the leading zero digit of a quotient above 1/Base
FractionDigits == (SignificandBits + 16) \div 15 + 1

Reverse(s) == [i \in 1..Len(s) |-> s[Len(s) + 1 - i]]

\* Python's a / b on ints 0 <= a, 0 < b < Base: the correctly rounded double
FloatDiv(a, b) ==
    LET ds   == LongDivision(a % b, b, FractionDigits)
        frac == SubSeq(ds, 1, FractionDigits)
        rem  == ds[FractionDigits + 1]
        n    == BigNorm(Reverse(frac) \o BigFromNat(a \div b))
    IN  RoundToDouble(n, -(15 * FractionDigits), rem # 0)

\* Python's k * x for an int 0 <= k < Base and a double x
FloatMulNat(k, x) == RoundToDouble(BigMulSmall(x.m, k), x.e, FALSE)

\* both operands on the smaller of the two exponents
Aligned(x, y) ==
    LET e == IF x.e < y.e THEN x.e ELSE y.e
    IN  [x |-> BigShiftLeft(x.m, x.e - e), y |-> BigShiftLeft(y.m, y.e - e), e |-> e]

FloatOfNat(k) == Canonical(BigFromNat(k), 0)

FloatAdd(x, y) ==
    LET a == Aligned(x, y) IN RoundToDouble(BigAdd(a.x, a.y), a.e, FALSE)

\* x - y for x >= y
FloatSub(x, y) ==
    LET a == Aligned(x, y) IN RoundToDouble(BigSub(a.x, a.y), a.e, FALSE)

\* Python's int(x) for a double x >= 0: truncation
FloatToInt(x) ==
    IF x.e >= 0 THEN BigToNat(BigShiftLeft(x.m, x.e))
    ELSE BigToNat(BigShiftRight(x.m, -x.e))

(***************************************************************************)
(* FleetInterpolator                                                       *)
(***************************************************************************)
FallbackFleetSize == 25

None == <<>>

\* int(before + (after - before) * ratio) on doubles
ScaleAndTruncate(before_count, after_count, ratio) ==
    IF after_count >= before_count
    THEN FloatToInt(FloatAdd(FloatOfNat(before_count),
                             FloatMulNat(after_count - before_count, ratio)))
    ELSE FloatToInt(FloatSub(FloatOfNat(before_count),
                             FloatMulNat(before_count - after_count, ratio)))

\* mutant: the elapsed days are counted back from the later snapshot
Interpolate_from_after(before_count, after_count, elapsed_days, total_days) ==
    ScaleAndTruncate(before_count, after_count,
                     FloatDiv(total_days - elapsed_days, total_days))

\* total_days, elapsed_days, ratio and the returned value of get_fleet_size
Interpolate(before_count, after_count, elapsed_days, total_days) ==
    ScaleAndTruncate(before_count, after_count,
                     IF total_days > 0 THEN FloatDiv(elapsed_days, total_days)
                     ELSE FloatOfNat(0))

\* the loop of get_fleet_size keeps the last snapshot at or before the target
\* date and the first one at or after it
before_of(snaps, target_date) ==
    LET atOrBefore == {i \in 1..Len(snaps) : snaps[i][1] <= target_date}
    IN  IF atOrBefore = {} THEN None
        ELSE snaps[CHOOSE i \in atOrBefore : \A j \in atOrBefore : j <= i]

after_of(snaps, target_date) ==
    LET atOrAfter == {i \in 1..Len(snaps) : snaps[i][1] >= target_date}
    IN  IF atOrAfter = {} THEN None
        ELSE snaps[CHOOSE i \in atOrAfter : \A j \in atOrAfter : i <= j]

\* mutant: past the last snapshot the first snapshot's count is returned
get_fleet_size_first_when_no_after(snaps, target_date) ==
    IF snaps = <<>> THEN FallbackFleetSize
    ELSE
      LET before == before_of(snaps, target_date)
          after  == after_of(snaps, target_date)
      IN  IF before = None THEN snaps[1][2]
          ELSE IF after = None THEN snaps[1][2]
          ELSE IF before[1] = after[1] THEN before[2]
          ELSE Interpolate(before[2], after[2],
                           target_date - before[1], after[1] - before[1])

\* get_fleet_size(target_date) on the snapshot list snaps
get_fleet_size(snaps, target_date) ==
    IF snaps = <<>> THEN FallbackFleetSize
    ELSE
      LET before == before_of(snaps, target_date)
          after  == after_of(snaps, target_date)
      IN  IF before = None THEN snaps[1][2]
          ELSE IF after = None THEN before[2]
          ELSE IF before[1] = after[1] THEN before[2]
          ELSE Interpolate(before[2], after[2],
                           target_date - before[1], after[1] - before[1])

\* current_date.strftime("%Y-%m-%d"): the date string of a day.  Distinct days
\* have distinct strings; a string written otherwise (not zero-padded, say)
\* is the string of no day.
strftime(d) == <<"%Y-%m-%d", d>>
Unpadded(d) == <<"%Y-%-m-%-d", d>>

\* datetime.strptime(s["date"], "%Y-%m-%d"): the day of a date string (%m and
\* %d also accept a month or day written without zero padding)
strptime(date_str) == date_str[2]

\* a JSON null, and what dict.get returns for a key the dict lacks; fleet
\* counts are never negative
Null == -1

\* s.get(key)
get(s, key) == IF key \in DOMAIN s THEN s[key] ELSE Null

\* list.sort(key=lambda x: x[0]) is stable: a pair goes after every pair
\* whose date is not later
RECURSIVE InsertByDate(_, _)
InsertByDate(sorted, pair) ==
    IF sorted = <<>> THEN <<pair>>
    ELSE IF sorted[Len(sorted)][1] <= pair[1] THEN Append(sorted, pair)
    ELSE Append(InsertByDate(SubSeq(sorted, 1, Len(sorted) - 1), pair),
                sorted[Len(sorted)])

RECURSIVE sort_by_date(_)
sort_by_date(pairs) ==
    IF pairs = <<>> THEN <<>>
    ELSE InsertByDate(sort_by_date(SubSeq(pairs, 1, Len(pairs) - 1)),
                      pairs[Len(pairs)])

\* mutant: a snapshot without the field is kept with the count 0
FleetInterpolator_null_counts_zero(snaps, fld) ==
    sort_by_date([i \in 1..Len(snaps) |->
                    <<strptime(snaps[i].date),
                      IF get(snaps[i], fld) = Null THEN 0 ELSE get(snaps[i], fld)>>])

\* FleetInterpolator(snapshots, field): self.snapshots, the <<date, count>>
\* pairs of the snapshots that carry the field, sorted by date
FleetInterpolator(snaps, fld) ==
    LET kept == SelectSeq(snaps, LAMBDA s : get(s, fld) # Null)
    IN  sort_by_date([i \in 1..Len(kept) |->
                        <<strptime(kept[i].date), get(kept[i], fld)>>])

\* excluded_dates=None, the default of calculate_miles_in_period: no set of
\* date strings
NoDates == {<<"None">>}

\* the truth value of excluded_dates: None and the empty set are false
Truthy(excluded) == excluded # NoDates /\ excluded # {}

\* mutant: an excluded day keeps its miles
DayEntry_counts_excluded(snaps, current_date, daily_miles_per_vehicle, excluded) ==
    LET date_str == strftime(current_date)
        size     == get_fleet_size(snaps, current_date)
    IN  [date        |-> date_str,
         fleet_size  |-> size,
         daily_miles |-> size * daily_miles_per_vehicle,
         excluded    |-> IF Truthy(excluded) THEN date_str \in excluded ELSE FALSE]

\* one iteration of the loop of calculate_miles_in_period: the breakdown
\* entry of current_date
DayEntry(snaps, current_date, daily_miles_per_vehicle, excluded) ==
    LET date_str == strftime(current_date)
        size     == get_fleet_size(snaps, current_date)
    IN  [date        |-> date_str,
         fleet_size  |-> size,
         daily_miles |-> IF Truthy(excluded) /\ date_str \in excluded THEN 0
                         ELSE size * daily_miles_per_vehicle,
         excluded    |-> IF Truthy(excluded) THEN date_str \in excluded ELSE FALSE]

\* while current_date <= end_date: ... current_date += timedelta(days=1)
RECURSIVE MilesLoop(_, _, _, _, _, _, _)
MilesLoop(snaps, current_date, end_date, daily_miles_per_vehicle, excluded, total_miles, daily_breakdown) ==
    IF current_date <= end_date
    THEN LET entry == DayEntry(snaps, current_date, daily_miles_per_vehicle, excluded)
         IN  MilesLoop(snaps, current_date + 1, end_date, daily_miles_per_vehicle,
                       excluded, total_miles + entry.daily_miles,
                       Append(daily_breakdown, entry))
    ELSE <<total_miles, daily_breakdown>>

\* mutant: the loop stops before end_date (current_date < end_date)
calculate_miles_in_period_before_end(snaps, start_date, end_date, daily_miles_per_vehicle, excluded) ==
    MilesLoop(snaps, start_date, end_date - 1, daily_miles_per_vehicle, excluded,
              0, <<>>)

\* calculate_miles_in_period: <<total_miles, daily_breakdown>>
calculate_miles_in_period(snaps, start_date, end_date, daily_miles_per_vehicle, excluded) ==
    MilesLoop(snaps, start_date, end_date, daily_miles_per_vehicle, excluded,
              0, <<>>)

(***************************************************************************)
(* calculate_mpi_between_incidents.  A DataFrame is the record of its      *)
(* columns, each the sequence of its cells; a 'parsed_date' cell is a day  *)
(* or NaT (pd.to_datetime(..., errors='coerce') of an unparseable date).   *)
(***************************************************************************)
RECURSIVE SumSeq(_)
SumSeq(s) == IF s = <<>> THEN 0 ELSE Head(s) + SumSeq(Tail(s))

NaT == -1

\* incidents_df.dropna(subset=['parsed_date'])
dropna(cells) == SelectSeq(cells, LAMBDA c : c # NaT)

RemoveAt(s, i) == SubSeq(s, 1, i - 1) \o SubSeq(s, i + 1, Len(s))

\* .sort_values('parsed_date'): ascending
RECURSIVE sort_values(_)
sort_values(cells) ==
    IF cells = <<>> THEN <<>>
    ELSE LET i == CHOOSE i \in 1..Len(cells) :
                     /\ \A j \in 1..Len(cells) : cells[i] <= cells[j]
                     /\ \A j \in 1..(i - 1) : cells[j] # cells[i]
         IN  <<cells[i]>> \o sort_values(RemoveAt(cells, i))

\* the locals of the loop before its first iteration
MpiStart(start) ==
    [prev_date            |-> start,
     incident_num         |-> 0,
     cumulative_miles     |-> 0,
     cumulative_incidents |-> 0,
     results              |-> <<>>]

\* mutant: excluded_days and active_days are set on every record
MpiRecord_always_with_stoppage_fields(acc, incident_date, period_result) ==
    LET miles           == period_result[1]
        daily_breakdown == period_result[2]
        days_between    == incident_date - acc.prev_date
        excluded_days_in_period ==
            Len(SelectSeq(daily_breakdown, LAMBDA d : d.excluded))
    IN  [incident_number      |-> acc.incident_num + 1,
         incident_date        |-> strftime(incident_date),
         days_since_previous  |-> days_between,
         miles_since_previous |-> miles,
         mpi_since_previous   |-> miles,
         avg_fleet_size       |->
             FloatDiv(SumSeq([i \in 1..Len(daily_breakdown) |->
                                daily_breakdown[i].fleet_size]),
                      Len(daily_breakdown)),
         cumulative_miles     |-> acc.cumulative_miles + miles,
         cumulative_incidents |-> acc.cumulative_incidents + 1,
         cumulative_mpi       |-> FloatDiv(acc.cumulative_miles + miles,
                                           acc.cumulative_incidents + 1),
         excluded_days        |-> excluded_days_in_period,
         active_days          |-> days_between - excluded_days_in_period]

\* the record of one incident
MpiRecord(acc, incident_date, period_result) ==
    LET miles           == period_result[1]
        daily_breakdown == period_result[2]
        days_between    == incident_date - acc.prev_date
        excluded_days_in_period ==
            Len(SelectSeq(daily_breakdown, LAMBDA d : d.excluded))
        active_days     == days_between - excluded_days_in_period
        avg_fleet ==
            IF daily_breakdown # <<>>
            THEN FloatDiv(SumSeq([i \in 1..Len(daily_breakdown) |->
                                    daily_breakdown[i].fleet_size]),
                          Len(daily_breakdown))
            ELSE FloatOfNat(0)
        result ==
            [incident_number      |-> acc.incident_num + 1,
             incident_date        |-> strftime(incident_date),
             days_since_previous  |-> days_between,
             miles_since_previous |-> miles,
             mpi_since_previous   |-> miles,
             avg_fleet_size       |-> avg_fleet,
             cumulative_miles     |-> acc.cumulative_miles + miles,
             cumulative_incidents |-> acc.cumulative_incidents + 1,
             cumulative_mpi       |-> FloatDiv(acc.cumulative_miles + miles,
                                               acc.cumulative_incidents + 1)]
    IN  IF excluded_days_in_period > 0
        THEN [excluded_days |-> excluded_days_in_period,
              active_days   |-> active_days] @@ result
        ELSE result

\* mutant: the running total is overwritten with the interval's miles
MpiStep_total_not_accumulated(acc, incident_date, snaps, daily, start, excluded) ==
    IF incident_date < start
    THEN [acc EXCEPT !.incident_num = @ + 1]
    ELSE LET rec == MpiRecord([acc EXCEPT !.cumulative_miles = 0], incident_date,
                              calculate_miles_in_period(snaps, acc.prev_date,
                                                        incident_date, daily, excluded))
         IN  [prev_date            |-> incident_date,
              incident_num         |-> acc.incident_num + 1,
              cumulative_miles     |-> rec.cumulative_miles,
              cumulative_incidents |-> rec.cumulative_incidents,
              results              |-> Append(acc.results, rec)]

\* mutant: an incident before service_start still moves prev_date
MpiStep_skipped_moves_prev_date(acc, incident_date, snaps, daily, start, excluded) ==
    IF incident_date < start
    THEN [acc EXCEPT !.incident_num = @ + 1, !.prev_date = incident_date]
    ELSE LET rec == MpiRecord(acc, incident_date,
                              calculate_miles_in_period(snaps, acc.prev_date,
                                                        incident_date, daily, excluded))
         IN  [prev_date            |-> incident_date,
              incident_num         |-> acc.incident_num + 1,
              cumulative_miles     |-> rec.cumulative_miles,
              cumulative_incidents |-> rec.cumulative_incidents,
              results              |-> Append(acc.results, rec)]

\* one iteration of the loop over sorted_incidents
MpiStep(acc, incident_date, snaps, daily, start, excluded) ==
    IF incident_date < start
    THEN [acc EXCEPT !.incident_num = @ + 1]     \* continue
    ELSE LET rec == MpiRecord(acc, incident_date,
                              calculate_miles_in_period(snaps, acc.prev_date,
                                                        incident_date, daily, excluded))
         IN  [prev_date            |-> incident_date,
              incident_num         |-> acc.incident_num + 1,
              cumulative_miles     |-> rec.cumulative_miles,
              cumulative_incidents |-> rec.cumulative_incidents,
              results              |-> Append(acc.results, rec)]

RECURSIVE MpiLoop(_, _, _, _, _, _)
MpiLoop(acc, sorted_incidents, snaps, daily, start, excluded) ==
    IF sorted_incidents = <<>> THEN acc.results
    ELSE MpiLoop(MpiStep(acc, Head(sorted_incidents), snaps, daily, start, excluded),
                 Tail(sorted_incidents), snaps, daily, start, excluded)

\* calculate_mpi_between_incidents(incidents_df, fleet_interpolator,
\* daily_miles, service_start, excluded_dates): the list of records
calculate_mpi_between_incidents(df, snaps, daily, start, excluded) ==
    IF "parsed_date" \notin DOMAIN df \/ df.parsed_date = <<>> THEN <<>>
    ELSE MpiLoop(MpiStart(start), sort_values(dropna(df.parsed_date)),
                 snaps, daily, start, excluded)

(***************************************************************************)
(* Inputs.  A timeline is what FleetInterpolator.__init__ leaves in        *)
(* self.snapshots for a fleet_data.json whose snapshot dates are unique    *)
(* (merge_scraped_to_fleet_data skips dates that already exist): the       *)
(* non-null <<date, count>> pairs sorted by date.                          *)
(***************************************************************************)
RECURSIVE SortedSeq(_)
SortedSeq(S) ==
    IF S = {} THEN <<>>
    ELSE LET least == CHOOSE x \in S : \A y \in S : x <= y
         IN  <<least>> \o SortedSeq(S \ {least})

TimelinesOver(days, counts) ==
    UNION {{[i \in 1..Len(SortedSeq(D)) |-> <<SortedSeq(D)[i], c[i]>>] :
               c \in [1..Cardinality(D) -> counts]} : D \in SUBSET days}

SnapshotDays == {1, 4, MaxDay}
Counts == {0, 20, MaxCount}
Timelines == TimelinesOver(SnapshotDays, Counts)
QueryDays == 0..(MaxDay + 1)

\* the snapshot of fleet_data.json for a <<date, count>> pair: the count is
\* under austin_vehicles and there is no austin_active_vehicles key
Snapshot(pair) == [date |-> strftime(pair[1]), austin_vehicles |-> pair[2]]
RawSnapshots(timeline) == [i \in 1..Len(timeline) |-> Snapshot(timeline[i])]

\* the snapshot load_fleet_data adds for a date fleet_growth_active.json alone
\* knows: austin_vehicles is null
ActiveSnapshot(d, count) ==
    [date |-> strftime(d), austin_vehicles |-> Null, austin_active_vehicles |-> count]
ActiveOnlyLists ==
    {<<ActiveSnapshot(1, 7)>>, <<ActiveSnapshot(3, 7), ActiveSnapshot(0, 0)>>}

\* the fields main builds an interpolator for
Fields == {"austin_vehicles", "austin_active_vehicles"}

\* the arguments of the constructor: the snapshots of a timeline in date
\* order or in reverse with the field they carry, or without it, and
\* active-only snapshots with either field
FleetArgsOver(timelines) ==
    {<<raw, "austin_vehicles">> :
        raw \in UNION {{RawSnapshots(t), Reverse(RawSnapshots(t))} : t \in timelines}}
    \cup {<<RawSnapshots(t), "austin_active_vehicles">> :
             t \in {x \in timelines : Len(x) = 1}}
    \cup (ActiveOnlyLists \X Fields)

EmptyMap == <<>>
Idle == "idle"

\* no analyzer is built and main is not running
NoMain == analyzer = Idle /\ trend_call = Idle /\ main = Idle /\ output_file = Idle

\* no scraping or sync script is running
NoScripts ==
    /\ fleet_data_file = Idle
    /\ merge_calls = Idle
    /\ extraction = Idle
    /\ app_js = Idle
    /\ update_calls = Idle

(***************************************************************************)
(* Specification of get_fleet_size: a timeline is drawn and the function   *)
(* is applied to dates; fleet_size keeps what the calls returned.          *)
(***************************************************************************)
InitSize ==
    /\ \E args \in FleetArgsOver(Timelines) :
          fleet_snapshots = args[1] /\ field = args[2]
    /\ snapshots = FleetInterpolator(fleet_snapshots, field)
    /\ NoMain
    /\ NoScripts
    /\ fleet_size = EmptyMap
    /\ excluded_dates = {}
    /\ daily_miles = 0
    /\ period_args = Idle
    /\ period = EmptyMap
    /\ service_start = 0
    /\ incidents_df = Idle
    /\ results = Idle

\* one call get_fleet_size(d); two dates of one timeline are compared, so
\* two calls are kept
GetFleetSize(d) ==
    /\ d \notin DOMAIN fleet_size
    /\ Cardinality(DOMAIN fleet_size) < 2
    /\ fleet_size' = (d :> get_fleet_size(snapshots, d)) @@ fleet_size
    /\ UNCHANGED <<fleet_snapshots, field, snapshots, excluded_dates, daily_miles,
                   period_args, period, service_start, incidents_df, results,
                   analyzer, trend_call, main, output_file, scripts>>

NextSize == \E d \in QueryDays : GetFleetSize(d)

SpecSize == InitSize /\ [][NextSize]_vars

\* the snapshots bracketing d: indexes i, i+1 of adjacent snapshots with d
\* between their dates
Brackets(i, d) ==
    /\ i \in 1..(Len(snapshots) - 1)
    /\ snapshots[i][1] <= d
    /\ d <= snapshots[i + 1][1]

StrictlyBrackets(i, d) ==
    /\ i \in 1..(Len(snapshots) - 1)
    /\ snapshots[i][1] < d
    /\ d < snapshots[i + 1][1]

\* C7: for a non-empty timeline get_fleet_size(d) is the earliest snapshot's
\* count for d on or before the earliest snapshot date, the latest snapshot's
\* count for d on or after the latest snapshot date, and the snapshot's count
\* when d is a snapshot date.
C7_Boundary ==
    \A d \in DOMAIN fleet_size :
        snapshots # <<>> =>
            /\ d <= snapshots[1][1] => fleet_size[d] = snapshots[1][2]
            /\ d >= snapshots[Len(snapshots)][1]
                  => fleet_size[d] = snapshots[Len(snapshots)][2]
            /\ \A i \in 1..Len(snapshots) :
                  snapshots[i][1] = d => fleet_size[d] = snapshots[i][2]

\* a timeline of three snapshots with different counts, queried before the
\* earliest date and on the middle snapshot's date
C7_Witness ==
    /\ Len(snapshots) = 3
    /\ snapshots[1][2] # snapshots[2][2]
    /\ snapshots[2][2] # snapshots[3][2]
    /\ \E d \in DOMAIN fleet_size :
          d < snapshots[1][1] /\ fleet_size[d] = snapshots[1][2]
    /\ \E d \in DOMAIN fleet_size :
          d = snapshots[2][1] /\ fleet_size[d] = snapshots[2][2]

\* before.count + (after.count - before.count) * elapsed / total in exact
\* arithmetic, truncated toward zero (the value is never negative)
ExactInterpolation(before, after, d) ==
    (before[2] * (after[1] - before[1]) + (after[2] - before[2]) * (d - before[1]))
        \div (after[1] - before[1])

\* C8: for d strictly between two adjacent snapshots, get_fleet_size(d) is
\* before.count + (after.count - before.count) * (d - before.date).days /
\* (after.date - before.date).days truncated toward zero, also when
\* after.count < before.count.
C8_InterpolationValue ==
    \A d \in DOMAIN fleet_size : \A i \in 1..Len(snapshots) :
        StrictlyBrackets(i, d) =>
            fleet_size[d] = ExactInterpolation(snapshots[i], snapshots[i + 1], d)

Min(a, b) == IF a <= b THEN a ELSE b
Max(a, b) == IF a >= b THEN a ELSE b

\* C9: for d1 < d2 between two adjacent snapshots, both sizes lie between the
\* two bracketing counts, and size(d1) <= size(d2) when the counts do not
\* decrease, size(d1) >= size(d2) when they do not increase.
C9_InterpolationBounds ==
    \A d1 \in DOMAIN fleet_size : \A d2 \in DOMAIN fleet_size :
        \A i \in 1..Len(snapshots) :
            (d1 < d2 /\ Brackets(i, d1) /\ Brackets(i, d2)) =>
                LET lo == Min(snapshots[i][2], snapshots[i + 1][2])
                    hi == Max(snapshots[i][2], snapshots[i + 1][2])
                IN  /\ lo <= fleet_size[d1] /\ fleet_size[d1] <= hi
                    /\ lo <= fleet_size[d2] /\ fleet_size[d2] <= hi
                    /\ snapshots[i][2] <= snapshots[i + 1][2]
                          => fleet_size[d1] <= fleet_size[d2]
                    /\ snapshots[i][2] >= snapshots[i + 1][2]
                          => fleet_size[d1] >= fleet_size[d2]

\* two dates strictly inside a bracket of decreasing counts, with different
\* interpolated sizes
C9_Witness ==
    \E d1 \in DOMAIN fleet_size : \E d2 \in DOMAIN fleet_size :
        \E i \in 1..Len(snapshots) :
            /\ d1 < d2
            /\ StrictlyBrackets(i, d1) /\ StrictlyBrackets(i, d2)
            /\ snapshots[i][2] > snapshots[i + 1][2]
            /\ fleet_size[d1] > fleet_size[d2]
            /\ fleet_size[d2] > snapshots[i + 1][2]

(***************************************************************************)
(* Specification of calculate_miles_in_period: a timeline, a stoppage      *)
(* registry, a daily mileage and three dates start <= mid <= end are       *)
(* drawn; the function is applied to (start, end), (start, mid) and        *)
(* (mid + 1 day, end) with the registry, and to (start, end) without it.   *)
(***************************************************************************)
PeriodDays == 0..(MaxPeriodDay + 1)
PeriodCounts == {0, 3, 10}
PeriodTimelines == TimelinesOver({0, MaxPeriodDay}, PeriodCounts)
DailyMilesChoices == {1, 100}

\* no stoppage, one stoppage day, every other day, or a date written without
\* zero padding
ExcludedChoices ==
    {{strftime(d)} : d \in PeriodDays}
    \cup {{}, {strftime(d) : d \in {x \in PeriodDays : x % 2 = 1}}, {Unpadded(1)}}

InitPeriod ==
    /\ \E args \in FleetArgsOver(PeriodTimelines) :
          fleet_snapshots = args[1] /\ field = args[2]
    /\ snapshots = FleetInterpolator(fleet_snapshots, field)
    /\ NoMain
    /\ NoScripts
    /\ excluded_dates \in ExcludedChoices
    /\ daily_miles \in DailyMilesChoices
    /\ period_args \in {a \in PeriodDays \X PeriodDays \X PeriodDays :
                           a[1] <= a[2] /\ a[2] <= a[3]}
    /\ period = EmptyMap
    /\ fleet_size = EmptyMap
    /\ service_start = 0
    /\ incidents_df = Idle
    /\ results = Idle

PeriodCall(name, made, start_date, end_date, excluded) ==
    /\ DOMAIN period = made
    /\ period' = (name :> calculate_miles_in_period(snapshots, start_date, end_date,
                                                     daily_miles, excluded))
                 @@ period
    /\ UNCHANGED <<fleet_snapshots, field, snapshots, excluded_dates, daily_miles,
                   fleet_size, period_args, service_start, incidents_df, results,
                   analyzer, trend_call, main, output_file, scripts>>

CallWhole ==
    PeriodCall("whole", {}, period_args[1], period_args[3], excluded_dates)
CallLeft ==
    PeriodCall("left", {"whole"}, period_args[1], period_args[2], excluded_dates)
CallRight ==
    PeriodCall("right", {"whole", "left"}, period_args[2] + 1, period_args[3],
               excluded_dates)
\* excluded_dates=None
CallWithoutStoppages ==
    PeriodCall("unstopped", {"whole", "left", "right"}, period_args[1],
               period_args[3], NoDates)

NextPeriod == CallWhole \/ CallLeft \/ CallRight \/ CallWithoutStoppages

SpecPeriod == InitPeriod /\ [][NextPeriod]_vars

\* C1: for start <= mid <= end the total of (start, end) is the total of
\* (start, mid) plus the total of (mid + 1 day, end), with the same fleet,
\* stoppages and daily miles.
C1_Additivity ==
    {"whole", "left", "right"} \subseteq DOMAIN period =>
        period["whole"][1] = period["left"][1] + period["right"][1]

\* both parts drive miles and a stoppage day lies in the range
C1_Witness ==
    /\ {"whole", "left", "right"} \subseteq DOMAIN period
    /\ period["left"][1] > 0
    /\ period["right"][1] > 0
    /\ period_args[1] < period_args[2]
    /\ \E i \in 1..Len(period["whole"][2]) : period["whole"][2][i].excluded

\* fleet_size * daily_miles of the breakdown entries on excluded dates
ExcludedContribution(breakdown) ==
    SumSeq([i \in 1..Len(breakdown) |->
              IF breakdown[i].date \in excluded_dates
              THEN breakdown[i].fleet_size * daily_miles ELSE 0])

\* C6: a day whose date is in the excluded set contributes 0 miles whatever
\* the fleet size, its entry is marked excluded and carries the interpolated
\* fleet size, and the total with the excluded dates is the total without
\* them minus fleet_size * daily_miles over the excluded days of the range.
C6_StoppageZeroing ==
    {"whole", "unstopped"} \subseteq DOMAIN period =>
        LET stopped   == period["whole"][2]
            unstopped == period["unstopped"][2]
        IN  /\ Len(stopped) = Len(unstopped)
            /\ \A i \in 1..Len(stopped) :
                  /\ stopped[i].date = unstopped[i].date
                  /\ stopped[i].fleet_size = unstopped[i].fleet_size
                  /\ stopped[i].date \in excluded_dates
                        => stopped[i].daily_miles = 0 /\ stopped[i].excluded
            /\ period["whole"][1]
                  = period["unstopped"][1] - ExcludedContribution(stopped)

\* an excluded day with vehicles on it inside a range that drives miles
C6_Witness ==
    /\ {"whole", "unstopped"} \subseteq DOMAIN period
    /\ period["whole"][1] > 0
    /\ period["whole"][1] < period["unstopped"][1]
    /\ \E i \in 1..Len(period["whole"][2]) :
          /\ period["whole"][2][i].excluded
          /\ period["whole"][2][i].fleet_size > 0
          /\ period["whole"][2][i].daily_miles = 0

\* the <<start_date, end_date>> a call was made with
CallRange(name) ==
    CASE name = "left"  -> <<period_args[1], period_args[2]>>
      [] name = "right" -> <<period_args[2] + 1, period_args[3]>>
      [] OTHER          -> <<period_args[1], period_args[3]>>

\* the excluded_dates a call was made with
CallExcluded(name) == IF name = "unstopped" THEN NoDates ELSE excluded_dates

\* C19: for start <= end the breakdown has (end - start).days + 1 entries,
\* one per day from start to end in ascending order, and the total is the sum
\* of the entries' daily miles; for start > end the call returns 0 miles and
\* an empty breakdown.
C19_EveryDayInclusive ==
    \A name \in DOMAIN period :
        LET start_date == CallRange(name)[1]
            end_date   == CallRange(name)[2]
            total      == period[name][1]
            breakdown  == period[name][2]
        IN  IF start_date <= end_date
            THEN /\ Len(breakdown) = (end_date - start_date) + 1
                 /\ \A i \in 1..Len(breakdown) :
                       breakdown[i].date = strftime(start_date + i - 1)
                 /\ total = SumSeq([i \in 1..Len(breakdown) |->
                                      breakdown[i].daily_miles])
            ELSE total = 0 /\ breakdown = <<>>

\* a range of three days or more that drives miles, and a call with
\* start > end (mid = end, so the right part starts the day after end)
C19_Witness ==
    /\ {"whole", "right"} \subseteq DOMAIN period
    /\ Len(period["whole"][2]) >= 3
    /\ period["whole"][1] > 0
    /\ CallRange("right")[1] > CallRange("right")[2]
    /\ period["right"] = <<0, <<>>>>

\* no snapshot given to the constructor carries the selected field
NoSnapshotCarriesField ==
    \A i \in 1..Len(fleet_snapshots) : get(fleet_snapshots[i], field) = Null

\* C20: an interpolator built from no snapshots, or from snapshots that all
\* lack the selected field, gives the fleet size 25 on every date; with an
\* empty or missing excluded-date set no day is excluded and the total of
\* calculate_miles_in_period(start, end) is 25 x daily_miles x the number of
\* days of the range.
C20_EmptyInputsAccepted ==
    NoSnapshotCarriesField =>
        /\ snapshots = <<>>
        /\ \A name \in DOMAIN period :
              LET start_date == CallRange(name)[1]
                  end_date   == CallRange(name)[2]
                  total      == period[name][1]
                  breakdown  == period[name][2]
              IN  /\ \A i \in 1..Len(breakdown) :
                        breakdown[i].fleet_size = FallbackFleetSize
                  /\ CallExcluded(name) \in {NoDates, {}} =>
                        /\ \A i \in 1..Len(breakdown) : ~breakdown[i].excluded
                        /\ total = FallbackFleetSize * daily_miles
                                     * Max(0, (end_date - start_date) + 1)

\* snapshots were given but none carries the field; the range has days and
\* is totalled with an empty excluded set and with none
C20_Witness ==
    /\ fleet_snapshots # <<>>
    /\ NoSnapshotCarriesField
    /\ excluded_dates = {}
    /\ {"whole", "unstopped"} \subseteq DOMAIN period
    /\ period["whole"][1] > 0
    /\ period["unstopped"][1] = period["whole"][1]

(***************************************************************************)
(* Specification of calculate_mpi_between_incidents, as main calls it: the *)
(* fleet, the stoppages, the daily miles, service_start and the incident   *)
(* frame are drawn, then the function is called.  results keeps the value  *)
(* each call made so far has returned (<<>> before the call).              *)
(***************************************************************************)
MpiTimelines ==
    {<<>>, <<<<1, 3>>>>, <<<<0, 0>>, <<MaxIncidentDay, 10>>>>,
     <<<<0, 10>>, <<MaxIncidentDay, 3>>>>}
MpiExcluded == {{}, {strftime(1)}, {strftime(MaxIncidentDay), Unpadded(0)}}
ServiceStarts == {0, 1}
IncidentCells == {0, 1, MaxIncidentDay, NaT}

\* frames with a parsed_date column of up to MaxIncidents rows in any order,
\* and a frame whose dates were never parsed (no such column)
Frames ==
    {[parsed_date |-> c] :
        c \in UNION {[1..n -> IncidentCells] : n \in 0..MaxIncidents}}
    \cup {[description |-> <<0>>]}

InitMpi ==
    /\ \E t \in MpiTimelines : fleet_snapshots = RawSnapshots(t)
    /\ field = "austin_vehicles"
    /\ snapshots = FleetInterpolator(fleet_snapshots, field)
    /\ NoMain
    /\ NoScripts
    /\ excluded_dates \in MpiExcluded
    /\ daily_miles \in DailyMilesChoices
    /\ service_start \in ServiceStarts
    /\ incidents_df \in Frames
    /\ results = <<>>
    /\ fleet_size = EmptyMap
    /\ period_args = Idle
    /\ period = EmptyMap

\* the end-to-end scenario; day 0 is 2025-06-25, day 30 is 2025-07-25 and day 15
\* is 2025-07-10
ScenarioSnapshots == <<<<0, 10>>, <<30, 20>>>>
ScenarioFrame == [parsed_date |-> <<15>>]

InitScenario ==
    /\ fleet_snapshots = RawSnapshots(ScenarioSnapshots)
    /\ field = "austin_vehicles"
    /\ snapshots = FleetInterpolator(fleet_snapshots, field)
    /\ NoMain
    /\ NoScripts
    /\ excluded_dates = {}
    /\ daily_miles = 100
    /\ service_start = 0
    /\ incidents_df = ScenarioFrame
    /\ results = <<>>
    /\ fleet_size = EmptyMap
    /\ period_args = Idle
    /\ period = EmptyMap

Init == InitMpi \/ InitScenario

CalculateMpi ==
    /\ results = <<>>
    /\ results' = <<calculate_mpi_between_incidents(incidents_df, snapshots,
                                                    daily_miles, service_start,
                                                    excluded_dates)>>
    /\ UNCHANGED <<fleet_snapshots, field, snapshots, excluded_dates, daily_miles,
                   fleet_size, period_args, period, service_start, incidents_df,
                   analyzer, trend_call, main, output_file, scripts>>

Next == CalculateMpi

Spec == Init /\ [][Next]_vars

Called == results # <<>>
\* the day of a date string
DayOf(date_str) == date_str[2]

\* C2: when two incidents on or after service_start carry the same date, the
\* record of the second has days_since_previous = 0 and miles_since_previous
\* = 0 (fleet count and daily miles positive, no stoppage on that date).
C2_SameDayTieBreak ==
    Called =>
        \A i \in 1..(Len(results[1]) - 1) :
            LET first  == results[1][i]
                second == results[1][i + 1]
            IN  (/\ first.incident_date = second.incident_date
                 /\ get_fleet_size(snapshots, DayOf(second.incident_date)) > 0
                 /\ daily_miles > 0
                 /\ second.incident_date \notin excluded_dates)
                => /\ second.days_since_previous = 0
                   /\ second.miles_since_previous = 0

\* C3: the intervals partition the days from service_start to the last
\* incident date: the last record's cumulative_miles is the total of one
\* call calculate_miles_in_period(service_start, last incident date).
C3_IntervalsPartition ==
    (Called /\ results[1] # <<>>) =>
        LET last == results[1][Len(results[1])]
        IN  last.cumulative_miles
              = calculate_miles_in_period(snapshots, service_start,
                                          DayOf(last.incident_date), daily_miles,
                                          excluded_dates)[1]

InScenario ==
    /\ snapshots = ScenarioSnapshots
    /\ incidents_df = ScenarioFrame
    /\ daily_miles = 100
    /\ service_start = 0
    /\ excluded_dates = {}

RECURSIVE SizesOver(_, _)
\* the sum of the interpolated fleet sizes of the days first..last
SizesOver(first, last) ==
    IF first > last THEN 0
    ELSE get_fleet_size(snapshots, first) + SizesOver(first + 1, last)

\* C4 as stated: in the scenario the single record has days_since_previous =
\* 15, every per-day fleet size lies between 10 and 15, and
\* miles_since_previous is 100 times the sum of the daily fleet sizes over 15
\* days (at most 22,500).
C4_ScenarioFifteenDays ==
    (InScenario /\ Called) =>
        /\ Len(results[1]) = 1
        /\ results[1][1].days_since_previous = 15
        /\ \A d \in 0..15 : get_fleet_size(snapshots, d) \in 10..15
        /\ \E first \in {0, 1} :
              results[1][1].miles_since_previous = 100 * SizesOver(first, first + 14)
        /\ results[1][1].miles_since_previous <= 22500

\* C4 amended: the miles are 100 times the sum of the daily fleet sizes over
\* the 16 days 2025-06-25 .. 2025-07-10, both included: 19,500.
C4_ScenarioSixteenDays ==
    (InScenario /\ Called) =>
        /\ Len(results[1]) = 1
        /\ results[1][1].days_since_previous = 15
        /\ \A d \in 0..15 : get_fleet_size(snapshots, d) \in 10..15
        /\ results[1][1].miles_since_previous = 100 * SizesOver(0, 15)
        /\ results[1][1].miles_since_previous = 19500
        /\ results[1][1].miles_since_previous <= 22500

C4_Witness ==
    /\ InScenario
    /\ Called
    /\ Len(results[1]) = 1
    /\ results[1][1].incident_date = strftime(15)
    /\ results[1][1].miles_since_previous > 0

\* C5: cumulative_miles never decreases from a record to the next,
\* cumulative_incidents grows by one, the first record has
\* cumulative_incidents = 1, and cumulative_miles is the sum of
\* miles_since_previous of the records up to and including it.
C5_CumulativeMonotonic ==
    Called =>
        LET R == results[1]
        IN  /\ \A i \in 1..(Len(R) - 1) :
                  /\ R[i].cumulative_miles <= R[i + 1].cumulative_miles
                  /\ R[i].cumulative_incidents + 1 = R[i + 1].cumulative_incidents
            /\ R # <<>> => R[1].cumulative_incidents = 1
            /\ \A i \in 1..Len(R) :
                  R[i].cumulative_miles
                    = SumSeq([j \in 1..i |-> R[j].miles_since_previous])

\* three records with growing totals, after a dropped incident
C5_Witness ==
    /\ Called
    /\ Len(results[1]) = 3
    /\ results[1][1].cumulative_miles > 0
    /\ results[1][1].cumulative_miles < results[1][2].cumulative_miles
    /\ results[1][2].cumulative_miles < results[1][3].cumulative_miles

\* the parsed dates on or after service_start, in the frame's order
Kept(df) ==
    IF "parsed_date" \in DOMAIN df
    THEN SelectSeq(df.parsed_date, LAMBDA c : c # NaT /\ c >= service_start)
    ELSE <<>>

\* a record without its incident_number
WithoutNumber(rec) == [f \in DOMAIN rec \ {"incident_number"} |-> rec[f]]

\* C10: one record per incident with a parsed date >= service_start and none
\* for an earlier one; the dropped incidents change no miles, days or
\* cumulative value of the records (the records are those of the call on the
\* kept incidents alone); if every incident is earlier, the result is empty.
C10_PreServiceDropped ==
    Called =>
        LET R    == results[1]
            kept == Kept(incidents_df)
            alone == calculate_mpi_between_incidents([parsed_date |-> kept],
                        snapshots, daily_miles, service_start, excluded_dates)
        IN  /\ Len(R) = Len(kept)
            /\ \A i \in 1..Len(R) : DayOf(R[i].incident_date) >= service_start
            /\ Len(alone) = Len(R)
            /\ \A i \in 1..Len(R) : WithoutNumber(R[i]) = WithoutNumber(alone[i])
            /\ kept = <<>> => R = <<>>

\* an incident before service_start and an unparsed one are dropped, two are kept
C10_Witness ==
    /\ Called
    /\ Len(results[1]) = 2
    /\ results[1][2].miles_since_previous > 0
    /\ "parsed_date" \in DOMAIN incidents_df
    /\ \E i \in 1..Len(incidents_df.parsed_date) :
          incidents_df.parsed_date[i] # NaT /\ incidents_df.parsed_date[i] < service_start

\* prev_date when the i-th record was made: service_start, or the date of
\* the record before it
PrevDate(i) ==
    IF i = 1 THEN service_start ELSE DayOf(results[1][i - 1].incident_date)

\* the days prev_date .. incident_date the i-th record was computed over
IntervalDays(i) == PrevDate(i)..DayOf(results[1][i].incident_date)

\* C22: incident_number is the 1-based position of the record in the output
\* and equals cumulative_incidents, also when incidents before service_start
\* were dropped.
C22_IncidentIndex ==
    Called =>
        \A i \in 1..Len(results[1]) :
            /\ results[1][i].incident_number = i
            /\ results[1][i].incident_number = results[1][i].cumulative_incidents

\* C23: avg_fleet_size is the mean of the interpolated fleet sizes of the days
\* of the interval, and 0 when days_since_previous = 0.
C23_AvgFleetSize ==
    Called =>
        \A i \in 1..Len(results[1]) :
            LET rec == results[1][i]
            IN  rec.avg_fleet_size
                  = IF rec.days_since_previous = 0 THEN FloatOfNat(0)
                    ELSE FloatDiv(SizesOver(PrevDate(i), DayOf(rec.incident_date)),
                                  Cardinality(IntervalDays(i)))

\* the excluded days among the days of the i-th record
ExcludedIn(i) == {d \in IntervalDays(i) : strftime(d) \in excluded_dates}

\* C24: a record carries excluded_days and active_days exactly when a day of
\* its interval is excluded; then excluded_days is the number of excluded
\* days and active_days = days_since_previous - excluded_days.
C24_SparseStoppageFields ==
    Called =>
        \A i \in 1..Len(results[1]) :
            LET rec == results[1][i]
                n   == Cardinality(ExcludedIn(i))
            IN  /\ "excluded_days" \in DOMAIN rec <=> n > 0
                /\ "active_days" \in DOMAIN rec <=> n > 0
                /\ n > 0 => /\ rec.excluded_days = n
                            /\ rec.active_days = rec.days_since_previous - n

\* a record with an excluded day and a record without one in the same result
C24_Witness ==
    /\ Called
    /\ \E i, j \in 1..Len(results[1]) :
          /\ "excluded_days" \in DOMAIN results[1][i]
          /\ results[1][i].active_days > 0
          /\ "excluded_days" \notin DOMAIN results[1][j]
          /\ results[1][j].days_since_previous > 0

\* C25: in every record that carries them, active_days >= 0 and
\* excluded_days <= days_since_previous.
C25_ActiveDaysNotNegative ==
    Called =>
        \A i \in 1..Len(results[1]) :
            LET rec == results[1][i]
            IN  "active_days" \in DOMAIN rec =>
                    /\ rec.active_days >= 0
                    /\ rec.excluded_days <= rec.days_since_previous

(***************************************************************************)
(* MPITrendAnalyzer.  scipy's optimize.curve_fit and numpy's exp are not   *)
(* part of the program: a call of curve_fit either raises or returns the   *)
(* parameters (a, b) within the bounds it is given, and any such outcome   *)
(* is possible.  a is a number of miles, b is counted in thousandths per   *)
(* day, r_squared in hundredths.  A call of a method ends with             *)
(*   result           the dict it returned, or [raised |-> exception]      *)
(*   curve_fit_calls  how often it invoked the optimizer                   *)
(*   evaluations      how often forecast evaluated the model (line 235)    *)
(***************************************************************************)
\* MPITrendAnalyzer(incident_data): days since the first record and the
\* interval MPI of every record
MPITrendAnalyzer(incident_data) ==
    [days_since_start |->
        [i \in 1..Len(incident_data) |->
            strptime(incident_data[i].incident_date)
              - strptime(incident_data[1].incident_date)],
     mpi_values |->
        [i \in 1..Len(incident_data) |-> incident_data[i].mpi_since_previous]]

\* HAS_NUMPY and HAS_SCIPY: scipy cannot be imported without numpy
Libraries ==
    {[numpy |-> FALSE, scipy |-> FALSE], [numpy |-> TRUE, scipy |-> FALSE],
     [numpy |-> TRUE, scipy |-> TRUE]}

\* what optimize.curve_fit(exp_func, x, y, p0, maxfev=5000, bounds=([0, -0.1],
\* [inf, 0.1])) can do: raise, or return popt = (a, b) with a >= 0 and b
\* within the bounds; residual is 1 - ss_res / ss_tot of the fitted curve
FitOutcomes ==
    {[raised |-> "Optimal parameters not found"]}
    \cup [a : {0, 100}, b : {-100, 0, 2}, residual : {-50, 0, 90}]

Returned(dict, calls, evals) ==
    [result |-> dict, curve_fit_calls |-> calls, evaluations |-> evals]
Raised(exception, calls, evals) ==
    [result |-> [raised |-> exception], curve_fit_calls |-> calls, evaluations |-> evals]

\* ss_tot = np.sum((y - np.mean(y)) ** 2) > 0: the values are not all equal
SsTotPositive(y) == \E i \in 1..Len(y) : y[i] # y[1]

\* np.log(2) / abs(b), as a term
DoublingTime(b) == <<"ln(2)/abs(b)", b>>

\* mutant: two points are enough for the optimizer
exponential_trend_two_points(self, libs, fit) ==
    IF ~libs.numpy \/ ~libs.scipy \/ Len(self.mpi_values) < 2
    THEN Returned([error |-> "Insufficient data or scipy not available"], 0, 0)
    ELSE IF "raised" \in DOMAIN fit
    THEN Returned([error |-> "Exponential fit failed: " \o fit.raised], 1, 0)
    ELSE Returned([type                |-> "exponential",
                   a                   |-> fit.a,
                   b                   |-> fit.b,
                   r_squared           |-> IF SsTotPositive(self.mpi_values)
                                           THEN fit.residual ELSE 0,
                   interpretation      |-> IF fit.b > 0 THEN "improving"
                                           ELSE "worsening",
                   growth_rate_per_day |-> fit.b,
                   doubling_time_days  |-> IF fit.b > 0 THEN DoublingTime(fit.b)
                                           ELSE None,
                   halving_time_days   |-> IF fit.b < 0 THEN DoublingTime(fit.b)
                                           ELSE None], 1, 0)

\* exponential_trend(): fit is what curve_fit does if it is invoked
exponential_trend(self, libs, fit) ==
    IF ~libs.numpy \/ ~libs.scipy \/ Len(self.mpi_values) < 3
    THEN Returned([error |-> "Insufficient data or scipy not available"], 0, 0)
    ELSE IF "raised" \in DOMAIN fit
    THEN Returned([error |-> "Exponential fit failed: " \o fit.raised], 1, 0)
    ELSE Returned([type                |-> "exponential",
                   a                   |-> fit.a,
                   b                   |-> fit.b,
                   r_squared           |-> IF SsTotPositive(self.mpi_values)
                                           THEN fit.residual ELSE 0,
                   interpretation      |-> IF fit.b > 0 THEN "improving"
                                           ELSE "worsening",
                   growth_rate_per_day |-> fit.b,
                   doubling_time_days  |-> IF fit.b > 0 THEN DoublingTime(fit.b)
                                           ELSE None,
                   halving_time_days   |-> IF fit.b < 0 THEN DoublingTime(fit.b)
                                           ELSE None], 1, 0)

\* get_best_fit(): the exponential fit is the only model fitted
get_best_fit(self, libs, fit) ==
    LET exp == exponential_trend(self, libs, fit)
    IN  IF "r_squared" \in DOMAIN exp.result
        THEN Returned([best_model |-> "exponential",
                       best_fit   |-> exp.result,
                       all_models |-> [exponential |-> exp.result]],
                      exp.curve_fit_calls, 0)
        ELSE Returned([error |-> "No models could be fitted"], exp.curve_fit_calls, 0)

\* the truth values y_future[-1] > mpi_values[-1] can have, y_future[-1] being
\* a * exp(b * t) for t = days_since_start[-1] + days_ahead > 0
Exceeds(a, b, last) ==
    IF a = 0 \/ b = 0 THEN {a > last}
    ELSE IF b > 0 /\ a >= last THEN {TRUE}
    ELSE IF b < 0 /\ a <= last THEN {FALSE}
    ELSE BOOLEAN

\* float(y_future[-1]), as a term
Predicted(a, b, t) == <<"a*exp(b*t)", a, b, t>>

\* mutant: the error of get_best_fit is not returned, a forecast is built
forecast_despite_error(self, libs, fit, days_ahead, exceeds) ==
    LET best == get_best_fit(self, libs, fit)
    IN  [best |-> best.result]
        @@ Returned([forecast_days         |-> days_ahead,
                     model_used            |-> "exponential",
                     predicted_mpi_30_days |-> None,
                     trend                 |-> IF exceeds THEN "improving"
                                               ELSE "worsening"],
                    best.curve_fit_calls, 1)

\* forecast(days_ahead): exceeds is the outcome of y_future[-1] >
\* self.mpi_values[-1]; best is the local of that name
forecast(self, libs, fit, days_ahead, exceeds) ==
    LET best  == get_best_fit(self, libs, fit)
        model == best.result.best_fit
        last  == Len(self.days_since_start)
    IN  [best |-> best.result]
        @@ IF "error" \in DOMAIN best.result THEN best
           ELSE IF ~libs.numpy
           THEN Returned([error |-> "numpy required for forecasting"],
                         best.curve_fit_calls, 0)
           \* np.arange(1, days_ahead + 1) is empty for days_ahead < 1, and
           \* y_future[-1] of the "trend" entry is then out of bounds
           ELSE IF days_ahead < 1
           THEN Raised("IndexError", best.curve_fit_calls, 1)
           ELSE Returned([forecast_days         |-> days_ahead,
                          model_used            |-> "exponential",
                          predicted_mpi_30_days |->
                              Predicted(model.a, model.b,
                                        self.days_since_start[last] + days_ahead),
                          trend                 |-> IF exceeds THEN "improving"
                                                    ELSE "worsening"],
                         best.curve_fit_calls, 1)

\* the methods the class defines
MPITrendAnalyzerMethods == {"exponential_trend", "get_best_fit", "forecast"}

\* analyzer.<method>(...): the lookup of a method the class does not define
\* raises AttributeError
Invoke(method, outcome) ==
    IF method \in MPITrendAnalyzerMethods THEN outcome
    ELSE Raised("AttributeError", 0, 0)

(***************************************************************************)
(* Specification of the trend analysis: the records of                     *)
(* calculate_mpi_between_incidents are handed to MPITrendAnalyzer and one  *)
(* method is called on the analyzer.  analyzer and trend_call are <<>>     *)
(* before the construction and the call, <<value>> after.                  *)
(***************************************************************************)
\* days_ahead: int = 30
DefaultDaysAhead == 30
Horizons == {0, 1, DefaultDaysAhead}

InitTrend ==
    /\ \E t \in MpiTimelines : fleet_snapshots = RawSnapshots(t)
    /\ field = "austin_vehicles"
    /\ snapshots = FleetInterpolator(fleet_snapshots, field)
    /\ excluded_dates = {}
    /\ daily_miles = 100
    /\ service_start \in ServiceStarts
    /\ incidents_df \in Frames
    /\ results = <<>>
    /\ fleet_size = EmptyMap
    /\ period_args = Idle
    /\ period = EmptyMap
    /\ analyzer = <<>>
    /\ trend_call = <<>>
    /\ main = Idle
    /\ output_file = Idle
    /\ NoScripts

NewAnalyzer ==
    /\ results # <<>>
    /\ analyzer = <<>>
    /\ analyzer' = <<MPITrendAnalyzer(results[1])>>
    /\ UNCHANGED <<fleet_snapshots, field, snapshots, excluded_dates, daily_miles,
                   fleet_size, period_args, period, service_start, incidents_df,
                   results, trend_call, main, output_file, scripts>>

\* one call analyzer.<method>(...) and how it ended
TrendCall(method, outcome) ==
    /\ analyzer # <<>>
    /\ trend_call = <<>>
    /\ trend_call' = <<[method |-> method] @@ Invoke(method, outcome)>>
    /\ UNCHANGED <<fleet_snapshots, field, snapshots, excluded_dates, daily_miles,
                   fleet_size, period_args, period, service_start, incidents_df,
                   results, analyzer, main, output_file, scripts>>

ExponentialTrend ==
    \E libs \in Libraries : \E fit \in FitOutcomes :
        TrendCall("exponential_trend", exponential_trend(analyzer[1], libs, fit))

GetBestFit ==
    \E libs \in Libraries : \E fit \in FitOutcomes :
        TrendCall("get_best_fit", get_best_fit(analyzer[1], libs, fit))

Forecast ==
    \E libs \in Libraries : \E fit \in FitOutcomes : \E days_ahead \in Horizons :
        \E exceeds \in IF "raised" \in DOMAIN fit \/ analyzer = <<>>
                          \/ analyzer[1].mpi_values = <<>>
                       THEN {FALSE}
                       ELSE Exceeds(fit.a, fit.b,
                                    analyzer[1].mpi_values[Len(analyzer[1].mpi_values)]) :
            TrendCall("forecast",
                      [days_ahead |-> days_ahead]
                      @@ forecast(analyzer[1], libs, fit, days_ahead, exceeds))

\* the linear fit of the notes main prints (lines 802-804): no method of the
\* class fits it
LinearTrend == TrendCall("linear_trend", Returned(None, 0, 0))

NextTrend ==
    \/ CalculateMpi
    \/ NewAnalyzer
    \/ ExponentialTrend
    \/ GetBestFit
    \/ Forecast
    \/ LinearTrend

SpecTrend == InitTrend /\ [][NextTrend]_vars

\* the number of points of the analyzer
Points == Len(analyzer[1].mpi_values)

\* C12: exponential_trend, get_best_fit and forecast never raise: each call
\* returns a dictionary, which carries an "error" entry when there are fewer
\* than 3 points.
C12_TrendFailuresAreValues ==
    \A i \in 1..Len(trend_call) :
        trend_call[i].method \in MPITrendAnalyzerMethods =>
            /\ "raised" \notin DOMAIN trend_call[i].result
            /\ Points < 3 => "error" \in DOMAIN trend_call[i].result

\* ordinary least squares of mpi = a + b t has a solution when two points
\* lie on different days
LinearFitExists ==
    \E i \in 1..Points : analyzer[1].days_since_start[i] # analyzer[1].days_since_start[1]

\* C15: get_best_fit fits a linear and an exponential model; when one of them
\* succeeded it returns a fit, the one with the highest r_squared of the
\* models fitted, and when none succeeded it returns the error "No models
\* could be fitted".
C15_BestModelSelection ==
    \A i \in 1..Len(trend_call) :
        trend_call[i].method = "get_best_fit" =>
            LET result == trend_call[i].result
            IN  /\ LinearFitExists =>
                      /\ "error" \notin DOMAIN result
                      /\ "best_fit" \in DOMAIN result
                      /\ "linear" \in DOMAIN result.all_models
                /\ "best_fit" \in DOMAIN result =>
                      \A model \in DOMAIN result.all_models :
                          result.best_fit.r_squared
                            >= result.all_models[model].r_squared
                /\ (~LinearFitExists /\ "error" \in DOMAIN result) =>
                      result.error = "No models could be fitted"

\* C16: the linear fit called with fewer than 2 points returns a result that
\* reports insufficient data; it does not raise.
C16_LinearInsufficientData ==
    \A i \in 1..Len(trend_call) :
        (trend_call[i].method = "linear_trend" /\ Points < 2) =>
            /\ "raised" \notin DOMAIN trend_call[i].result
            /\ "error" \in DOMAIN trend_call[i].result

\* C17: exponential_trend with fewer than 3 points returns an error result
\* without invoking the optimizer; with 3 points or more it returns a fit
\* carrying r_squared or an error result.
C17_ExponentialInsufficientData ==
    \A i \in 1..Len(trend_call) :
        trend_call[i].method = "exponential_trend" =>
            LET result == trend_call[i].result
            IN  /\ "raised" \notin DOMAIN result
                /\ Points < 3 =>
                      /\ "error" \in DOMAIN result
                      /\ "r_squared" \notin DOMAIN result
                      /\ trend_call[i].curve_fit_calls = 0
                /\ Points >= 3 =>
                      ("r_squared" \in DOMAIN result) # ("error" \in DOMAIN result)

\* exactly two points: an error and no call of the optimizer
C17_Witness ==
    /\ trend_call # <<>>
    /\ trend_call[1].method = "exponential_trend"
    /\ Points = 2
    /\ "error" \in DOMAIN trend_call[1].result
    /\ trend_call[1].curve_fit_calls = 0

\* C18: when get_best_fit returns an error, forecast returns that error
\* result, with no predicted value and no trend, and evaluates no model.
C18_ForecastWithoutFit ==
    \A i \in 1..Len(trend_call) :
        (trend_call[i].method = "forecast" /\ "error" \in DOMAIN trend_call[i].best) =>
            /\ trend_call[i].result = trend_call[i].best
            /\ "predicted_mpi_30_days" \notin DOMAIN trend_call[i].result
            /\ "trend" \notin DOMAIN trend_call[i].result
            /\ trend_call[i].evaluations = 0

\* three points, the optimizer was invoked and raised: forecast returns the
\* error of get_best_fit
C18_Witness ==
    /\ trend_call # <<>>
    /\ trend_call[1].method = "forecast"
    /\ Points = 3
    /\ trend_call[1].curve_fit_calls = 1
    /\ trend_call[1].result = [error |-> "No models could be fitted"]

\* C26: a successful exponential fit populates exactly one of
\* doubling_time_days and halving_time_days, the first when b > 0 and the
\* second when b < 0, and its interpretation is "worsening" only when b < 0.
C26_DoublingOrHalving ==
    \A i \in 1..Len(trend_call) :
        (/\ trend_call[i].method = "exponential_trend"
         /\ "r_squared" \in DOMAIN trend_call[i].result) =>
            LET fit == trend_call[i].result
            IN  /\ (fit.doubling_time_days # None) # (fit.halving_time_days # None)
                /\ fit.doubling_time_days # None <=> fit.b > 0
                /\ fit.halving_time_days # None <=> fit.b < 0
                /\ fit.interpretation = "worsening" => fit.b < 0

\* C27: with a successful fit and a horizon >= 0, forecast does not raise; it
\* returns the model value at days_since_start[-1] + horizon and reports the
\* trend "improving" when that value exceeds the last interval MPI, else
\* "worsening".
C27_ForecastDirectionAndHorizon ==
    \A i \in 1..Len(trend_call) :
        (/\ trend_call[i].method = "forecast"
         /\ "best_fit" \in DOMAIN trend_call[i].best
         /\ trend_call[i].days_ahead >= 0) =>
            LET call   == trend_call[i]
                model  == call.best.best_fit
                t_last == analyzer[1].days_since_start[Points]
                last   == analyzer[1].mpi_values[Points]
            IN  /\ "raised" \notin DOMAIN call.result
                /\ "error" \notin DOMAIN call.result =>
                      /\ call.result.predicted_mpi_30_days
                           = Predicted(model.a, model.b, t_last + call.days_ahead)
                      /\ call.result.trend \in {"improving", "worsening"}
                      /\ call.result.trend = "improving"
                           => TRUE \in Exceeds(model.a, model.b, last)
                      /\ call.result.trend = "worsening"
                           => FALSE \in Exceeds(model.a, model.b, last)

(***************************************************************************)
(* main.  Init is the state after the data is loaded and the two           *)
(* interpolators are built (lines 696-721) on the NHTSA path (all_tesla    *)
(* has rows); every action is one stretch of main up to the next place     *)
(* where it can stop.  main.pc names the stretch main is about to run,     *)
(* "done" after return 0, "failed" after an exception left main (raised    *)
(* names it).  A file is [exists, content], its content the sequence of    *)
(* the chunks written to it; json.dump(output, f, indent=2) writes the     *)
(* document to the open file chunk by chunk, here one chunk per top-level  *)
(* key.  open and write can fail with OSError (no permission, disk full).  *)
(* The chart plot_mpi_trend saves is not modelled.                         *)
(***************************************************************************)
\* daily_miles = 115
ModerateDailyMiles == 115

BothSnapshot(d, total, active) ==
    [date |-> strftime(d), austin_vehicles |-> total, austin_active_vehicles |-> active]

\* fleet_data.json after load_fleet_data: no snapshot, a fleet of 10 with no
\* active vehicle, a fleet of 0, and a fleet that shrinks to 0
MainFleetData ==
    {<<>>,
     <<BothSnapshot(0, 10, 0)>>,
     <<BothSnapshot(0, 0, 5)>>,
     <<BothSnapshot(0, 10, 5), BothSnapshot(MaxIncidentDay, 0, 8)>>}

\* service_stoppages.json: no stoppage, or one of two days
MainStoppages ==
    {<<>>, <<[dates |-> <<strftime(0), strftime(1)>>, reason |-> "Winter storm"]>>}

\* load_service_stoppages: the dates of all stoppages
ExcludedOf(stoppages) ==
    UNION {{stoppages[i].dates[j] : j \in 1..Len(stoppages[i].dates)} :
              i \in 1..Len(stoppages)}

\* all_tesla after parse_incident_dates: a frame with rows, with or without
\* a parsed_date column
MainFrames ==
    {[parsed_date |-> c] :
        c \in UNION {[1..n -> {0, MaxIncidentDay, NaT}] : n \in 1..MaxIncidents}}
    \cup {[description |-> <<0>>]}

\* len(df): the number of rows
len(df) == Len(df[CHOOSE column \in DOMAIN df : TRUE])

\* sorted(excluded_dates), for zero-padded date strings: by day
sorted(dates) == [i \in 1..Cardinality(dates) |-> strftime(SortedSeq({strptime(s) : s \in dates})[i])]

\* what curve_fit does on the data of one run: it is invoked only for 3
\* points or more with numpy and scipy installed
NotInvoked == [raised |-> "curve_fit is not invoked"]
MainFitOutcomes == {fit \in FitOutcomes : "raised" \in DOMAIN fit \/ (fit.a = 100 /\ fit.residual = 90)}
CurveFitFor(records, libs) ==
    IF libs.numpy /\ libs.scipy /\ Len(records) >= 3 THEN MainFitOutcomes
    ELSE {NotInvoked}

\* print_trend_analysis(analyzer): "returned", or the exception a call it
\* makes raises
print_trend_analysis(self, libs, fit, exceeds) ==
    IF Len(self.mpi_values) < 3 THEN "returned"
    ELSE LET exp == exponential_trend(self, libs, fit)
             fc  == forecast(self, libs, fit, DefaultDaysAhead, exceeds)
         IN  IF "raised" \in DOMAIN exp.result THEN exp.result.raised
             ELSE IF "raised" \in DOMAIN fc.result THEN fc.result.raised
             ELSE "returned"

\* sum(r['mpi_since_previous'] for r in results) / len(results)
average_mpi(records) ==
    FloatDiv(SumSeq([i \in 1..Len(records) |-> records[i].mpi_since_previous]),
             Len(records))

EmptyDict == <<>>

\* lines 836-848
active_fleet_output(results_active, trend_data_active, excluded) ==
    IF results_active = <<>> THEN EmptyDict
    ELSE [incidents      |-> results_active,
          trend_analysis |-> trend_data_active,
          summary        |->
              [average_mpi         |-> average_mpi(results_active),
               latest_mpi          |->
                   results_active[Len(results_active)].mpi_since_previous,
               cumulative_mpi      |->
                   results_active[Len(results_active)].cumulative_mpi,
               total_miles         |->
                   results_active[Len(results_active)].cumulative_miles,
               total_excluded_days |-> Cardinality(excluded)]]

\* lines 825-830 and 850-869: the output dict
Output(now, all_tesla, excluded, stoppages, records, trend_data, active) ==
    [analysis_date          |-> now,
     service_start          |-> strftime(0),
     data_source            |-> "nhtsa",
     fleet_data_source      |-> "total",
     incident_count         |-> len(all_tesla),
     daily_miles_assumption |-> ModerateDailyMiles,
     excluded_dates         |-> sorted(excluded),
     service_stoppages      |->
         [i \in 1..Len(stoppages) |->
             [dates |-> stoppages[i].dates, reason |-> stoppages[i].reason]],
     incidents              |-> records,
     trend_analysis         |-> trend_data,
     summary                |->
         [average_mpi         |-> IF records # <<>> THEN average_mpi(records) ELSE 0,
          latest_mpi          |-> IF records # <<>>
                                  THEN records[Len(records)].mpi_since_previous ELSE 0,
          cumulative_mpi      |-> IF records # <<>>
                                  THEN records[Len(records)].cumulative_mpi ELSE 0,
          total_miles         |-> IF records # <<>>
                                  THEN records[Len(records)].cumulative_miles ELSE 0,
          total_excluded_days |-> Cardinality(excluded)],
     active_fleet           |-> active]

\* the order in which json.dump writes the keys of the output dict
OutputKeys ==
    <<"analysis_date", "service_start", "data_source", "fleet_data_source",
      "incident_count", "daily_miles_assumption", "excluded_dates",
      "service_stoppages", "incidents", "trend_analysis", "summary",
      "active_fleet">>

\* the chunks json.dump(output, f, indent=2) writes
Serialise(output) == [i \in 1..Len(OutputKeys) |-> <<OutputKeys[i], output[OutputKeys[i]]>>]

\* analysis_results.json before the run: absent, or the complete document
\* of an earlier run that found no incident
NoFile == [exists |-> FALSE, content |-> <<>>]
EarlierDocument ==
    Serialise(Output("earlier", [parsed_date |-> <<NaT>>], {}, <<>>, <<>>,
                     EmptyDict, EmptyDict))

InitMain ==
    /\ fleet_snapshots \in MainFleetData
    /\ field = "austin_vehicles"
    /\ snapshots = FleetInterpolator(fleet_snapshots, field)
    /\ \E stoppages \in MainStoppages : \E libs \in Libraries :
       \E before \in {NoFile, [exists |-> TRUE, content |-> EarlierDocument]} :
          /\ excluded_dates = ExcludedOf(stoppages)
          /\ output_file = before
          /\ main = [pc                        |-> "calculate",
                     libraries                 |-> libs,
                     stoppages_list            |-> stoppages,
                     fleet_interpolator_active |->
                         FleetInterpolator(fleet_snapshots, "austin_active_vehicles"),
                     previous                  |-> before,
                     fit                       |-> NotInvoked,
                     analyzer_active           |-> None,
                     output                    |-> None,
                     meta_tags                 |-> None,
                     raised                    |-> "",
                     returned                  |-> None]
    /\ daily_miles = ModerateDailyMiles
    /\ service_start = 0
    /\ incidents_df \in MainFrames
    /\ results = <<>>
    /\ analyzer = <<>>
    /\ trend_call = <<>>
    /\ fleet_size = EmptyMap
    /\ period_args = Idle
    /\ period = EmptyMap
    /\ NoScripts

\* an exception leaves main
Fail(exception) == main' = [main EXCEPT !.pc = "failed", !.raised = exception]

\* lines 729-736: the records of the total and of the active fleet
MainCalculate ==
    /\ main.pc = "calculate"
    /\ results' = <<calculate_mpi_between_incidents(incidents_df, snapshots,
                        daily_miles, service_start, excluded_dates),
                    calculate_mpi_between_incidents(incidents_df,
                        main.fleet_interpolator_active, daily_miles,
                        service_start, excluded_dates)>>
    /\ main' = [main EXCEPT !.pc = "trend"]
    /\ UNCHANGED <<fleet_snapshots, field, snapshots, excluded_dates, daily_miles,
                   fleet_size, period_args, period, service_start, incidents_df,
                   analyzer, trend_call, output_file, scripts>>

\* lines 739-749: the analyzers and print_trend_analysis
MainTrend ==
    /\ main.pc = "trend"
    /\ IF results[1] = <<>>
       THEN /\ main' = [main EXCEPT !.pc = "comparison"]
            /\ UNCHANGED analyzer
       ELSE \E fit \in CurveFitFor(results[1], main.libraries) :
            \E exceeds \in IF "raised" \in DOMAIN fit THEN {FALSE}
                           ELSE Exceeds(fit.a, fit.b,
                                        results[1][Len(results[1])].mpi_since_previous) :
               LET self    == MPITrendAnalyzer(results[1])
                   printed == print_trend_analysis(self, main.libraries, fit, exceeds)
               IN  /\ analyzer' = <<self>>
                   /\ IF printed # "returned" THEN Fail(printed)
                      ELSE main' = [main EXCEPT
                               !.pc = "comparison",
                               !.fit = fit,
                               !.analyzer_active =
                                   IF results[2] # <<>>
                                   THEN MPITrendAnalyzer(results[2]) ELSE None]
    /\ UNCHANGED <<fleet_snapshots, field, snapshots, excluded_dates, daily_miles,
                   fleet_size, period_args, period, service_start, incidents_df,
                   results, trend_call, output_file, scripts>>

\* lines 759-811: the comparison with human drivers divides by the average
\* and by the latest interval MPI; the fleet table and the notes follow
MainComparison ==
    /\ main.pc = "comparison"
    /\ IF results[1] # <<>>
          /\ (\/ average_mpi(results[1]) = FloatOfNat(0)
              \/ results[1][Len(results[1])].mpi_since_previous = 0)
       THEN Fail("ZeroDivisionError")
       ELSE main' = [main EXCEPT !.pc = "save"]
    /\ UNCHANGED <<fleet_snapshots, field, snapshots, excluded_dates, daily_miles,
                   fleet_size, period_args, period, service_start, incidents_df,
                   results, analyzer, trend_call, output_file, scripts>>

\* lines 813-869: the trend data and the output dict
MainSave ==
    /\ main.pc = "save"
    /\ \E fit_active \in CurveFitFor(results[2], main.libraries) :
          LET trend_data ==
                  IF results[1] # <<>>
                  THEN get_best_fit(MPITrendAnalyzer(results[1]), main.libraries,
                                    main.fit).result
                  ELSE EmptyDict
              trend_data_active ==
                  IF results[2] # <<>> /\ main.analyzer_active # None
                  THEN get_best_fit(main.analyzer_active, main.libraries,
                                    fit_active).result
                  ELSE EmptyDict
          IN  main' = [main EXCEPT
                  !.pc = "open",
                  !.output =
                      Output("now", incidents_df, excluded_dates, main.stoppages_list,
                             results[1], trend_data,
                             active_fleet_output(results[2], trend_data_active,
                                                 excluded_dates))]
    /\ UNCHANGED <<fleet_snapshots, field, snapshots, excluded_dates, daily_miles,
                   fleet_size, period_args, period, service_start, incidents_df,
                   results, analyzer, trend_call, output_file, scripts>>

\* line 871: open(output_file, 'w') creates the file or truncates it
MainOpen ==
    /\ main.pc = "open"
    /\ output_file' = [exists |-> TRUE, content |-> <<>>]
    /\ main' = [main EXCEPT !.pc = "dump"]
    /\ UNCHANGED <<fleet_snapshots, field, snapshots, excluded_dates, daily_miles,
                   fleet_size, period_args, period, service_start, incidents_df,
                   results, analyzer, trend_call, scripts>>

\* line 871: open raises and the file is as it was
MainOpenFails ==
    /\ main.pc = "open"
    /\ Fail("OSError")
    /\ UNCHANGED <<fleet_snapshots, field, snapshots, excluded_dates, daily_miles,
                   fleet_size, period_args, period, service_start, incidents_df,
                   results, analyzer, trend_call, output_file, scripts>>

\* line 872: json.dump writes the next chunk; after the last one the with
\* block closes the file
MainDump ==
    /\ main.pc = "dump"
    /\ LET chunks  == Serialise(main.output)
           written == Len(output_file.content)
       IN  /\ output_file' = [output_file EXCEPT
                                 !.content = Append(@, chunks[written + 1])]
           /\ main' = [main EXCEPT
                          !.pc = IF written + 1 = Len(chunks) THEN "meta" ELSE "dump"]
    /\ UNCHANGED <<fleet_snapshots, field, snapshots, excluded_dates, daily_miles,
                   fleet_size, period_args, period, service_start, incidents_df,
                   results, analyzer, trend_call, scripts>>

\* line 872: a write raises; the with block closes the file with what was
\* written
MainDumpFails ==
    /\ main.pc = "dump"
    /\ Fail("OSError")
    /\ UNCHANGED <<fleet_snapshots, field, snapshots, excluded_dates, daily_miles,
                   fleet_size, period_args, period, service_start, incidents_df,
                   results, analyzer, trend_call, output_file, scripts>>

\* lines 876-880: the arguments of update_html_meta_tags, or None when it is
\* not called
MetaTags ==
    IF results[1] # <<>> /\ main.output.trend_analysis # EmptyDict
    THEN LET best_fit   == IF "best_fit" \in DOMAIN main.output.trend_analysis
                           THEN main.output.trend_analysis.best_fit ELSE EmptyDict
             dt_days    == IF best_fit # EmptyDict THEN best_fit.doubling_time_days
                           ELSE None
             latest_mpi == results[1][Len(results[1])].mpi_since_previous
         IN  IF dt_days # None /\ latest_mpi # 0
             THEN <<latest_mpi, <<"round", dt_days>>>>
             ELSE None
    ELSE None

\* lines 876-884: the meta tags of docs/index.html are updated and main
\* returns 0
MainUpdateMeta ==
    /\ main.pc = "meta"
    /\ main' = [main EXCEPT !.pc = "done", !.meta_tags = MetaTags, !.returned = 0]
    /\ UNCHANGED <<fleet_snapshots, field, snapshots, excluded_dates, daily_miles,
                   fleet_size, period_args, period, service_start, incidents_df,
                   results, analyzer, trend_call, output_file, scripts>>

\* line 669: index_path.write_text raises
MainUpdateMetaFails ==
    /\ main.pc = "meta"
    /\ MetaTags # None
    /\ Fail("OSError")
    /\ UNCHANGED <<fleet_snapshots, field, snapshots, excluded_dates, daily_miles,
                   fleet_size, period_args, period, service_start, incidents_df,
                   results, analyzer, trend_call, output_file, scripts>>

NextMain ==
    \/ MainCalculate
    \/ MainTrend
    \/ MainComparison
    \/ MainSave
    \/ MainOpen
    \/ MainOpenFails
    \/ MainDump
    \/ MainDumpFails
    \/ MainUpdateMeta
    \/ MainUpdateMetaFails

SpecMain == InitMain /\ [][NextMain]_vars

\* the file holds all of the document of this run
HoldsNewDocument ==
    /\ main.output # None
    /\ output_file = [exists |-> TRUE, content |-> Serialise(main.output)]

\* C11: when main has failed, analysis_results.json holds its complete
\* previous content or the complete new content, never a truncated or partial
\* document.
C11_NoPartialResultFile ==
    main.pc = "failed" => (output_file = main.previous \/ HoldsNewDocument)

\* records exist, and their average or the latest interval MPI is 0
DegenerateRecords ==
    /\ results # <<>>
    /\ results[1] # <<>>
    /\ \/ SumSeq([i \in 1..Len(results[1]) |-> results[1][i].mpi_since_previous]) = 0
       \/ results[1][Len(results[1])].mpi_since_previous = 0

\* C13: when records exist and their average or the latest interval MPI is 0,
\* main reaches the write of analysis_results.json and returns 0: it does not
\* terminate with an error of its own (only an OSError of open or write can
\* stop it).
C13_KeepsRunningOnDegenerateData ==
    DegenerateRecords =>
        /\ main.pc = "failed" => main.raised = "OSError"
        /\ main.pc = "done" => main.returned = 0

(***************************************************************************)
(* Specification of FleetInterpolator.__init__ on any snapshot list: the   *)
(* list is whatever fleet_data.json holds (load_fleet_data does not look   *)
(* at its dates), so two snapshots may carry the same date, in the same    *)
(* or in another spelling.  The object is built, then dates are looked up. *)
(***************************************************************************)
ListDates == {strftime(1), strftime(2), Unpadded(1)}
ListCounts == {Null, 0, 20}
ListSnapshots == [date : ListDates, austin_vehicles : ListCounts]
MaxSnapshots == 3
SnapshotLists == UNION {[1..n -> ListSnapshots] : n \in 0..MaxSnapshots}
ListQueryDays == 0..3

InitList ==
    /\ fleet_snapshots \in SnapshotLists
    /\ field \in Fields
    /\ snapshots = Idle
    /\ NoMain
    /\ NoScripts
    /\ fleet_size = EmptyMap
    /\ excluded_dates = {}
    /\ daily_miles = 0
    /\ period_args = Idle
    /\ period = EmptyMap
    /\ service_start = 0
    /\ incidents_df = Idle
    /\ results = Idle

\* interpolator = FleetInterpolator(fleet_snapshots, field)
Construct ==
    /\ snapshots = Idle
    /\ snapshots' = FleetInterpolator(fleet_snapshots, field)
    /\ UNCHANGED <<fleet_snapshots, field, excluded_dates, daily_miles, fleet_size,
                   period_args, period, service_start, incidents_df, results,
                   analyzer, trend_call, main, output_file, scripts>>

\* interpolator.get_fleet_size(d)
LookUp == snapshots # Idle /\ \E d \in ListQueryDays : GetFleetSize(d)

NextList == Construct \/ LookUp

SpecList == InitList /\ [][NextList]_vars

\* the snapshots of the list that carry the field
Carrying == SelectSeq(fleet_snapshots, LAMBDA s : get(s, field) # Null)

\* C21: after construction the stored snapshots are sorted ascending by date,
\* no two of them share a date, and they are the snapshots of the list whose
\* field is not null: a snapshot with a null field is not stored, so that no
\* lookup sees it.
C21_TimelineInvariant ==
    snapshots # Idle =>
        /\ \A i \in 1..(Len(snapshots) - 1) : snapshots[i][1] <= snapshots[i + 1][1]
        /\ \A i, j \in 1..Len(snapshots) :
              snapshots[i][1] = snapshots[j][1] => i = j
        /\ Len(snapshots) = Len(Carrying)
        /\ \A i \in 1..Len(snapshots) :
              \E j \in 1..Len(Carrying) :
                  snapshots[i] = <<strptime(Carrying[j].date), get(Carrying[j], field)>>
        /\ \A d \in DOMAIN fleet_size :
              fleet_size[d] = get_fleet_size(FleetInterpolator(Carrying, field), d)

(***************************************************************************)
(* scripts/scrape_fleet_data.py: merge_scraped_to_fleet_data.  The file    *)
(* fleet_data.json is [exists, content], its content the chunks json.dump  *)
(* wrote, one per top-level key ("metadata", then "snapshots"); json.load  *)
(* parses it when both are there.  Date strings are ISO dates, written     *)
(* strftime(d), so that their order as strings is the order of their days. *)
(* A value that is None in Python is Null for a count and None for a date. *)
(***************************************************************************)
\* d[key] = value on a dict
setitem(d, key, value) ==
    [k \in DOMAIN d \cup {key} |-> IF k = key THEN value ELSE d[k]]

\* the value is not None and not 0
TruthyCount(value) == value # Null /\ value # 0

\* the snapshot of lines 1544-1551
TotalSnapshot(date, austin, bayarea) ==
    [date             |-> date,
     austin_vehicles  |-> austin,
     bayarea_vehicles |-> bayarea,
     total_robotaxi   |-> austin,
     source           |-> "robotaxitracker.com",
     notes            |-> <<"Scraped from chart">>]

\* the snapshot of lines 1594-1603
ActiveOnlySnapshot(date, austin_active, bayarea_active) ==
    [date                    |-> date,
     austin_vehicles         |-> Null,
     bayarea_vehicles        |-> Null,
     total_robotaxi          |-> Null,
     austin_active_vehicles  |-> austin_active,
     bayarea_active_vehicles |-> bayarea_active,
     source                  |-> "robotaxitracker.com",
     notes                   |-> <<"Active fleet scraped from chart">>]

\* the loop of lines 1533-1554: new_snapshots
RECURSIVE NewTotalSnapshots(_, _, _)
NewTotalSnapshots(items, existing_dates, new_snapshots) ==
    IF items = <<>> THEN new_snapshots
    ELSE LET item == Head(items)
         IN  IF item.date = None \/ item.date \in existing_dates
             THEN NewTotalSnapshots(Tail(items), existing_dates, new_snapshots)
             ELSE IF item.austin = Null /\ item.bayarea = Null
             THEN NewTotalSnapshots(Tail(items), existing_dates, new_snapshots)
             ELSE NewTotalSnapshots(Tail(items), existing_dates \cup {item.date},
                                    Append(new_snapshots,
                                           TotalSnapshot(item.date, item.austin,
                                                         item.bayarea)))

\* snapshot_by_date[date]: the last snapshot of the list with this date
ByDate(snaps, date) ==
    CHOOSE i \in 1..Len(snaps) :
        /\ snaps[i].date = date
        /\ \A j \in (i + 1)..Len(snaps) : snaps[j].date # date

\* lines 1583-1588 on one snapshot
WithActive(snapshot, austin_active, bayarea_active) ==
    LET first == IF austin_active # Null
                    /\ get(snapshot, "austin_active_vehicles") # austin_active
                 THEN setitem(snapshot, "austin_active_vehicles", austin_active)
                 ELSE snapshot
    IN  IF bayarea_active # Null
           /\ get(first, "bayarea_active_vehicles") # bayarea_active
        THEN setitem(first, "bayarea_active_vehicles", bayarea_active)
        ELSE first

\* the loop of lines 1568-1607 on acc = [snapshots, changes_made]
RECURSIVE MergeActive(_, _)
MergeActive(items, acc) ==
    IF items = <<>> THEN acc
    ELSE LET item == Head(items)
             snaps == acc.snapshots
         IN  IF item.date = None \/ (item.austin = Null /\ item.bayarea = Null)
             THEN MergeActive(Tail(items), acc)
             ELSE IF \E i \in 1..Len(snaps) : snaps[i].date = item.date
             THEN LET i       == ByDate(snaps, item.date)
                      updated == WithActive(snaps[i], item.austin, item.bayarea)
                  IN  MergeActive(Tail(items),
                                  [snapshots    |-> [snaps EXCEPT ![i] = updated],
                                   changes_made |-> acc.changes_made
                                                      \/ updated # snaps[i]])
             ELSE MergeActive(Tail(items),
                              [snapshots    |->
                                   Append(snaps, ActiveOnlySnapshot(item.date, item.austin,
                                                                     item.bayarea)),
                               changes_made |-> TRUE])

\* fleet_data["snapshots"].sort(key=lambda x: x["date"]): stable
RECURSIVE InsertSnapshot(_, _)
InsertSnapshot(sorted_snaps, snapshot) ==
    IF sorted_snaps = <<>> THEN <<snapshot>>
    ELSE IF strptime(sorted_snaps[Len(sorted_snaps)].date) <= strptime(snapshot.date)
    THEN Append(sorted_snaps, snapshot)
    ELSE Append(InsertSnapshot(SubSeq(sorted_snaps, 1, Len(sorted_snaps) - 1), snapshot),
                sorted_snaps[Len(sorted_snaps)])

RECURSIVE sort_snapshots(_)
sort_snapshots(snaps) ==
    IF snaps = <<>> THEN <<>>
    ELSE InsertSnapshot(sort_snapshots(SubSeq(snaps, 1, Len(snaps) - 1)),
                        snaps[Len(snaps)])

\* lines 1623-1648: the notes and the active counts of the last snapshot
WithCurrentFleet(snaps, current_fleet, active_fleet) ==
    IF TruthyCount(current_fleet.austin_vehicles)
       /\ TruthyCount(current_fleet.bayarea_vehicles)
    THEN LET austin == current_fleet.austin_vehicles
             bayarea == current_fleet.bayarea_vehicles
             notes == <<"Current fleet", austin, bayarea, austin + bayarea,
                        active_fleet.austin_active,
                        IF active_fleet.austin_active # Null
                        THEN active_fleet.total_active ELSE Null>>
             noted == setitem(snaps[Len(snaps)], "notes", notes)
             first == IF active_fleet.austin_active # Null
                      THEN setitem(noted, "austin_active_vehicles",
                                   active_fleet.austin_active)
                      ELSE noted
             last_snapshot ==
                      IF active_fleet.bayarea_active # Null
                      THEN setitem(first, "bayarea_active_vehicles",
                                   active_fleet.bayarea_active)
                      ELSE first
         IN  [snaps EXCEPT ![Len(snaps)] = last_snapshot]
    ELSE snaps

\* json.dump(fleet_data, f, indent=2) and json.load(f)
DumpFleetData(fleet_data) ==
    <<<<"metadata", fleet_data.metadata>>, <<"snapshots", fleet_data.snapshots>>>>
LoadFleetData(content) ==
    [metadata |-> content[1][2], snapshots |-> content[2][2]]
Parses(content) == Len(content) = 2

\* merge_scraped_to_fleet_data(scraped_data) up to the save: the value it
\* returns without writing, or the document it is about to write
merge_scraped_to_fleet_data(scraped_data, file, now) ==
    LET has_total_data  == scraped_data.historical_data # <<>>
        has_active_data == scraped_data.active_historical_data # <<>>
    IN  IF ~has_total_data /\ ~has_active_data THEN [returned |-> FALSE]
        ELSE IF ~file.exists THEN [returned |-> FALSE]
        ELSE IF ~Parses(file.content) THEN [returned |-> FALSE]
        ELSE
          LET fleet_data == LoadFleetData(file.content)
              existing_dates ==
                  {fleet_data.snapshots[i].date : i \in 1..Len(fleet_data.snapshots)}
              new_snapshots ==
                  IF has_total_data
                  THEN NewTotalSnapshots(scraped_data.historical_data,
                                         existing_dates, <<>>)
                  ELSE <<>>
              with_total == [snapshots    |-> fleet_data.snapshots \o new_snapshots,
                             changes_made |-> new_snapshots # <<>>]
              merged == IF has_active_data
                        THEN MergeActive(scraped_data.active_historical_data,
                                         with_total)
                        ELSE with_total
          IN  IF ~merged.changes_made THEN [returned |-> FALSE]
              ELSE [write |->
                       [metadata  |-> setitem(fleet_data.metadata, "last_updated",
                                              strftime(now)),
                        snapshots |-> WithCurrentFleet(sort_snapshots(merged.snapshots),
                                                       scraped_data.current_fleet,
                                                       scraped_data.active_fleet)]]

(***************************************************************************)
(* Specification of the merges: fleet_data.json holds snapshots of unique  *)
(* dates in date order (or is absent); scrape results are merged into it   *)
(* one after the other.  A historical list of a scrape result is empty or  *)
(* what extract_historical_data returns: one item per date, at least three *)
(* dates, in date order, one item at least with a regional count.          *)
(* merge_calls keeps, for every call, the scrape result, the value         *)
(* returned and the file before and after.                                 *)
(***************************************************************************)
MaxMergeDay == 3
MaxMerges == 2
MergeDays == 1..MaxMergeDay

Item(date, austin, bayarea) == [date |-> date, austin |-> austin, bayarea |-> bayarea]

\* the item of a day: with an Austin count, a Bay Area count or a total only
ItemOf(d, kind, count) ==
    Item(strftime(d), IF kind = "austin" THEN count ELSE Null,
         IF kind = "bayarea" THEN count - 1 ELSE Null)

HistoricalLists(kinds, count) ==
    {<<>>} \cup
    {[d \in MergeDays |-> ItemOf(d, k[d], count)] :
        k \in {f \in [MergeDays -> kinds] : f[1] = "austin"}}

CurrentFleets ==
    {[austin_vehicles |-> 10, bayarea_vehicles |-> 1],
     [austin_vehicles |-> 10, bayarea_vehicles |-> Null]}
ActiveFleets ==
    {[austin_active |-> Null, bayarea_active |-> Null, total_active |-> Null],
     [austin_active |-> 9, bayarea_active |-> Null, total_active |-> 9]}

Scrapes ==
    [historical_data        : HistoricalLists({"austin", "none"}, 5),
     active_historical_data : HistoricalLists({"austin", "bayarea", "none"}, 7),
     current_fleet          : CurrentFleets,
     active_fleet           : ActiveFleets]

\* the scrapes that follow the first one: the charts as they were, or the
\* active chart alone with the counts of another day
LaterScrapes ==
    {sc \in Scrapes :
        /\ sc.historical_data = <<>>
        /\ sc.active_historical_data # <<>>
        /\ \A d \in MergeDays : sc.active_historical_data[d].austin # Null}

FleetFiles ==
    {NoFile} \cup
    {[exists  |-> TRUE,
      content |-> DumpFleetData(
          [metadata  |-> [last_updated |-> strftime(0)],
           snapshots |-> [i \in 1..Len(SortedSeq(D)) |->
                            TotalSnapshot(strftime(SortedSeq(D)[i]), 10, Null)]])] :
        D \in SUBSET MergeDays}

\* datetime.now() of a merge: the merges run on successive days
now_of(calls) == MaxMergeDay + 1 + Len(calls)

InitMerge ==
    /\ fleet_data_file \in FleetFiles
    /\ merge_calls = <<>>
    /\ extraction = Idle
    /\ app_js = Idle
    /\ update_calls = Idle
    /\ NoMain
    /\ fleet_snapshots = Idle
    /\ field = Idle
    /\ snapshots = Idle
    /\ fleet_size = EmptyMap
    /\ excluded_dates = {}
    /\ daily_miles = 0
    /\ period_args = Idle
    /\ period = EmptyMap
    /\ service_start = 0
    /\ incidents_df = Idle
    /\ results = Idle

\* what open(FLEET_DATA_FILE, 'w') and json.dump can leave: the document, or
\* after an IOError the file as it was (open failed) or a truncated one
Saves(file, fleet_data) ==
    {[exists |-> TRUE, content |-> SubSeq(DumpFleetData(fleet_data), 1, n)] : n \in 1..2}
    \cup {file}

\* one call merge_scraped_to_fleet_data(scraped_data)
Merge(scraped_data) ==
    /\ Len(merge_calls) < MaxMerges
    /\ LET merged == merge_scraped_to_fleet_data(scraped_data, fleet_data_file,
                                                 now_of(merge_calls))
         IN  \E saved \in IF "write" \in DOMAIN merged
                          THEN Saves(fleet_data_file, merged.write)
                          ELSE {fleet_data_file} :
               /\ fleet_data_file' = saved
               /\ merge_calls' =
                    Append(merge_calls,
                           [scraped_data |-> scraped_data,
                            returned     |-> /\ "write" \in DOMAIN merged
                                             /\ saved.exists
                                             /\ saved.content = DumpFleetData(merged.write),
                            before       |-> fleet_data_file,
                            after        |-> saved])
    /\ UNCHANGED <<fleet_snapshots, field, snapshots, excluded_dates, daily_miles,
                   fleet_size, period_args, period, service_start, incidents_df,
                   results, analyzer, trend_call, main, output_file,
                   extraction, app_js, update_calls>>

FirstMerge == merge_calls = <<>> /\ \E scraped_data \in Scrapes : Merge(scraped_data)

\* the same scrape result is merged again
SameMerge ==
    /\ merge_calls # <<>>
    /\ Merge(merge_calls[Len(merge_calls)].scraped_data)

LaterMerge == merge_calls # <<>> /\ \E scraped_data \in LaterScrapes : Merge(scraped_data)

NextMerge == FirstMerge \/ SameMerge \/ LaterMerge

SpecMerge == InitMerge /\ [][NextMerge]_vars

\* the snapshots of a file json.load parses
SnapshotsOf(file) ==
    IF file.exists /\ Parses(file.content) THEN LoadFleetData(file.content).snapshots
    ELSE <<>>

\* C28: merging is idempotent: after a merge that returned True, merging the
\* same scrape result again returns False and leaves the file as it is; after
\* every merge the snapshot dates of the file are unique and in ascending
\* order, and the total-fleet counts of a date the file already had are the
\* same as before.
C28_MergeIdempotent ==
    /\ \A i \in 1..(Len(merge_calls) - 1) :
          (/\ merge_calls[i].returned
           /\ merge_calls[i + 1].scraped_data = merge_calls[i].scraped_data) =>
              /\ ~merge_calls[i + 1].returned
              /\ merge_calls[i + 1].after = merge_calls[i + 1].before
    /\ LET snaps == SnapshotsOf(fleet_data_file)
       IN  \A i \in 1..(Len(snaps) - 1) :
               strptime(snaps[i].date) < strptime(snaps[i + 1].date)
    /\ \A i \in 1..Len(merge_calls) :
          LET before == SnapshotsOf(merge_calls[i].before)
              after  == SnapshotsOf(merge_calls[i].after)
          IN  merge_calls[i].returned =>
                \A j \in 1..Len(before) :
                    \E k \in 1..Len(after) :
                        /\ after[k].date = before[j].date
                        /\ after[k].austin_vehicles = before[j].austin_vehicles
                        /\ after[k].bayarea_vehicles = before[j].bayarea_vehicles
                        /\ after[k].total_robotaxi = before[j].total_robotaxi

(***************************************************************************)
(* scripts/scrape_fleet_growth.py: validate_data, deduplicate_by_date and  *)
(* _extract_with_strategies.  A data point is a dict with the key date and *)
(* some of the keys austin, bayarea, total; the dates are strings          *)
(* YYYY-MM-DD (normalize_date_string and parse_tooltip_text pad month and  *)
(* day), so the order of the strings is the order of the days.             *)
(***************************************************************************)

\* d.get("date"), and the truth of it
DateOf(item) == IF "date" \in DOMAIN item THEN item.date ELSE None

\* sum(1 for v in item.values() if v is not None)
NonNoneValues(item) ==
    Cardinality({k \in DOMAIN item :
                    IF k = "date" THEN item.date # None ELSE item[k] # Null})

\* len(unique_dates) >= 3 without the region test
validate_data_without_region(data) ==
    /\ Len(data) >= 3
    /\ Cardinality({DateOf(data[i]) : i \in 1..Len(data)} \ {None}) >= 3

validate_data(data) ==
    /\ Len(data) >= 3
    /\ Cardinality({DateOf(data[i]) : i \in 1..Len(data)} \ {None}) >= 3
    /\ \E i \in 1..Len(data) :
          get(data[i], "austin") # Null \/ get(data[i], "bayarea") # Null

\* the loop of deduplicate_by_date: the dict by_date
RECURSIVE ByDateOf(_, _)
ByDateOf(data, by_date) ==
    IF data = <<>> THEN by_date
    ELSE LET item == Head(data)
             date == DateOf(item)
         IN  IF date = None THEN ByDateOf(Tail(data), by_date)
             ELSE IF date \notin DOMAIN by_date
             THEN ByDateOf(Tail(data), by_date @@ (date :> item))
             ELSE IF NonNoneValues(item) > NonNoneValues(by_date[date])
             THEN ByDateOf(Tail(data), [by_date EXCEPT ![date] = item])
             ELSE ByDateOf(Tail(data), by_date)

\* sorted(by_date.values(), key=lambda x: x["date"]): the dates are unique
deduplicate_by_date(data) ==
    LET by_date == ByDateOf(data, EmptyMap)
        days    == SortedSeq({strptime(date) : date \in DOMAIN by_date})
    IN  [i \in 1..Len(days) |-> by_date[strftime(days[i])]]

\* the three strategies in the order of the code
Strategies == <<"api", "react", "hover">>

\* one strategy block: the data a strategy extracted is returned, or the
\* next strategy is tried (after the last one [] is returned)
AfterStrategy(n, data) ==
    LET ran   == Append(extraction.ran, [strategy |-> Strategies[n], data |-> data])
        dedup == deduplicate_by_date(data)
    IN  IF data # <<>> /\ validate_data(dedup)
        THEN [pc |-> "returned", ran |-> ran, returned |-> dedup]
        ELSE IF n < Len(Strategies)
        THEN [pc |-> Strategies[n + 1], ran |-> ran, returned |-> <<>>]
        ELSE [pc |-> "returned", ran |-> ran, returned |-> <<>>]

\* an await on the page raised: the coroutine ends with the exception
PageRaised(n) ==
    [pc       |-> "raised",
     ran      |-> Append(extraction.ran, [strategy |-> Strategies[n], data |-> <<>>]),
     returned |-> <<>>]

(***************************************************************************)
(* Specification of _extract_with_strategies: the captured API responses   *)
(* yield any list of data points (several arrays may give the same date    *)
(* again, in any order); the React tree and the tooltips yield one of a    *)
(* few lists, or the page raises.                                          *)
(***************************************************************************)
MaxExtractDay == 3
MaxPoints == 4
ExtractDays == 1..MaxExtractDay

\* the points of _parse_fleet_array (lines 114-119): all four keys
FleetPoint(date, austin, bayarea, total) ==
    [date |-> date, austin |-> austin, bayarea |-> bayarea, total |-> total]

ApiPoints ==
    {FleetPoint(strftime(d), 5, Null, Null) : d \in ExtractDays}
    \cup {FleetPoint(strftime(d), Null, Null, 9) : d \in ExtractDays}

ApiData == UNION {[1..n -> ApiPoints] : n \in 0..MaxPoints}

\* the array of one chart: one point per day
ReactData ==
    {<<>>,
     [d \in ExtractDays |-> FleetPoint(strftime(d), 5, 2, 7)],
     [d \in ExtractDays |-> FleetPoint(strftime(d), Null, Null, 7)],
     [d \in 1..2 |-> FleetPoint(strftime(d), 5, 2, 7)]}

\* the results of parse_tooltip_text: only the keys the tooltip showed, one
\* point per date (seen_dates)
TooltipPoint(d, kind) ==
    IF kind = "austin" THEN [date |-> strftime(d), austin |-> 5]
    ELSE IF kind = "bayarea" THEN [date |-> strftime(d), bayarea |-> 2]
    ELSE [date |-> strftime(d), total |-> 7]

HoverData ==
    {<<>>,
     [i \in ExtractDays |-> TooltipPoint(MaxExtractDay + 1 - i,
                                         IF i = 1 THEN "bayarea" ELSE "total")],
     [i \in ExtractDays |-> TooltipPoint(i, "total")],
     [i \in 1..2 |-> TooltipPoint(i, "austin")]}

InitExtract ==
    /\ extraction = [pc |-> "api", ran |-> <<>>, returned |-> <<>>]
    /\ fleet_data_file = Idle
    /\ merge_calls = Idle
    /\ app_js = Idle
    /\ update_calls = Idle
    /\ NoMain
    /\ fleet_snapshots = Idle
    /\ field = Idle
    /\ snapshots = Idle
    /\ fleet_size = EmptyMap
    /\ excluded_dates = {}
    /\ daily_miles = 0
    /\ period_args = Idle
    /\ period = EmptyMap
    /\ service_start = 0
    /\ incidents_df = Idle
    /\ results = Idle

NotExtracting ==
    UNCHANGED <<fleet_snapshots, field, snapshots, excluded_dates, daily_miles,
                fleet_size, period_args, period, service_start, incidents_df,
                results, analyzer, trend_call, main, output_file,
                fleet_data_file, merge_calls, app_js, update_calls>>

\* Strategy 1: extract_fleet_data_from_api_responses
StrategyApi ==
    /\ extraction.pc = "api"
    /\ \E data \in ApiData : extraction' = AfterStrategy(1, data)
    /\ NotExtracting

\* Strategy 2: the scroll (page.evaluate may raise), then
\* extract_chart_data_from_react, which returns [] on its own exceptions
StrategyReact ==
    /\ extraction.pc = "react"
    /\ \/ extraction' = PageRaised(2)
       \/ \E data \in ReactData : extraction' = AfterStrategy(2, data)
    /\ NotExtracting

\* Strategy 3: extract_data_via_mouse_hover (its awaits may raise), then
\* return []
StrategyHover ==
    /\ extraction.pc = "hover"
    /\ \/ extraction' = PageRaised(3)
       \/ \E data \in HoverData : extraction' = AfterStrategy(3, data)
    /\ NotExtracting

NextExtract == StrategyApi \/ StrategyReact \/ StrategyHover

SpecExtract == InitExtract /\ [][NextExtract]_vars

\* the dates of a list of data points, as day numbers
DaysOf(data) == [i \in 1..Len(data) |-> strptime(data[i].date)]

\* C29: the strategies run in the order API responses, React fiber, mouse
\* hover; the value returned is the deduplicated data of the first strategy
\* whose deduplicated data validate_data accepts, and that strategy is the last
\* one run; [] is returned only when no strategy validated; a non-empty
\* result has at least 3 dates, no date twice, the dates ascending, and a
\* point with an austin or a bayarea value.
C29_StrategyCascade ==
    LET ran == extraction.ran
        validated == {i \in 1..Len(ran) :
                         /\ ran[i].data # <<>>
                         /\ validate_data(deduplicate_by_date(ran[i].data))}
        result == extraction.returned
    IN  /\ \A i \in 1..Len(ran) : ran[i].strategy = Strategies[i]
        /\ extraction.pc # "returned" => validated = {}
        /\ extraction.pc = "returned" =>
              /\ validated # {} =>
                    /\ validated = {Len(ran)}
                    /\ result = deduplicate_by_date(ran[Len(ran)].data)
              /\ validated = {} => result = <<>> /\ Len(ran) = Len(Strategies)
              /\ result = <<>> => validated = {}
              /\ result # <<>> =>
                    /\ Len(result) >= 3
                    /\ \A i \in 1..(Len(result) - 1) :
                          DaysOf(result)[i] < DaysOf(result)[i + 1]
                    /\ \E i \in 1..Len(result) :
                          \/ get(result[i], "austin") # Null
                          \/ get(result[i], "bayarea") # Null

\* the API data had a date twice and out of order and was returned
\* deduplicated and sorted
C29_Witness ==
    /\ extraction.pc = "returned"
    /\ Len(extraction.ran) = 1
    /\ Len(extraction.ran[1].data) = 4
    /\ Len(extraction.returned) = 3
    /\ strptime(extraction.ran[1].data[1].date) = 3

(***************************************************************************)
(* scripts/sync_app_data.py.  The text of app.js is a sequence of tokens:  *)
(* "const NAME = [" (Decl), "];" (Close), "const latestActiveFleetSize =   *)
(* n;" (Size), the lines of a generated array (Lines) and any other text   *)
(* (Text), which holds none of the former.  The incident dates lie in July *)
(* and August 2025: day 1 is 2025-07-01, day 32 is 2025-08-01.             *)
(***************************************************************************)
Decl(var_name) == [token |-> "decl", name |-> var_name]
Close == [token |-> "close"]
Size(n) == [token |-> "size", value |-> n]
Lines(lines) == [token |-> "lines", lines |-> lines]
Text(n) == [token |-> "text", id |-> n]

\* filter_incidents
RECURSIVE filter_incidents(_, _, _)
filter_incidents(incidents, exclude_backing, exclude_stationary) ==
    IF incidents = <<>> THEN <<>>
    ELSE LET inc == Head(incidents)
             is_backing == /\ inc.roadway_type = "Parking Lot"
                           /\ inc.precrash_movement = "Backing"
             is_stationary == /\ inc.precrash_speed_mph = 0
                              /\ inc.precrash_movement = "Stopped"
             rest == filter_incidents(Tail(incidents), exclude_backing,
                                      exclude_stationary)
         IN  IF exclude_backing /\ is_backing THEN rest
             ELSE IF exclude_stationary /\ is_stationary THEN rest
             ELSE <<inc>> \o rest

SyncDailyMiles == 115

\* the loop of recalculate_mpi from its second incident on (cumulative_mpi,
\* which no generator reads, is left out)
RECURSIVE Recalculated(_, _, _, _)
Recalculated(incidents, i, prev_date, cumulative_miles) ==
    IF i > Len(incidents) THEN <<>>
    ELSE LET inc == incidents[i]
             current_date == strptime(inc.incident_date)
             days == current_date - prev_date
             miles == FloatToInt(inc.avg_fleet_size) * SyncDailyMiles
                        * (IF days > 1 THEN days ELSE 1)
             new_inc == [inc EXCEPT !.days_since_previous = days,
                                    !.miles_since_previous = miles,
                                    !.mpi_since_previous = miles,
                                    !.cumulative_miles = cumulative_miles + miles,
                                    !.cumulative_incidents = i]
         IN  <<new_inc>> \o Recalculated(incidents, i + 1, current_date,
                                         cumulative_miles + miles)

recalculate_mpi(incidents) ==
    IF incidents = <<>> THEN <<>>
    ELSE <<incidents[1]>> \o Recalculated(incidents, 2, strptime(incidents[1].incident_date),
                                          incidents[1].cumulative_miles)

\* date_str[:7] and known_dates.get(month_key, date_str) for July and August
\* 2025: July has an entry ('2025-07-15'), August has none
viz_date_of(date_str) ==
    IF strptime(date_str) <= 31 THEN strftime(15) ELSE date_str

RECURSIVE SumMiles(_)
SumMiles(date_incidents) ==
    IF date_incidents = <<>> THEN 0
    ELSE Head(date_incidents).miles_since_previous + SumMiles(Tail(date_incidents))

\* sum(inc['avg_fleet_size'] for ...): 0 + x is x, then double additions
RECURSIVE SumFleet(_, _)
SumFleet(date_incidents, acc) ==
    IF date_incidents = <<>> THEN acc
    ELSE SumFleet(Tail(date_incidents), FloatAdd(acc, Head(date_incidents).avg_fleet_size))

\* Python's x / k for a double x >= 0 that is a multiple of a small power of
\* 1/2 and an int k > 0
FloatDivNat(x, k) ==
    IF x.e >= 0 THEN FloatDiv(FloatToInt(x), k)
    ELSE FloatDiv(BigToNat(x.m), k * 2^(-x.e))

\* one line of generate_incident_array: the cluster of one date
IncidentLine(date_str, date_incidents) ==
    LET incident_count == Len(date_incidents)
        total_miles == SumMiles(date_incidents)
        avg_fleet == FloatDivNat(SumFleet(Tail(date_incidents),
                                          date_incidents[1].avg_fleet_size),
                                 incident_count)
    IN  [date  |-> viz_date_of(date_str),
         days  |-> date_incidents[1].days_since_previous,
         fleet |-> FloatToInt(avg_fleet),
         miles |-> total_miles,
         mpi   |-> total_miles \div incident_count,
         count |-> incident_count]

\* by_date[date_str]: the incidents of a date, in their order
RECURSIVE OnDate(_, _)
OnDate(incidents, date_str) ==
    IF incidents = <<>> THEN <<>>
    ELSE (IF Head(incidents).incident_date = date_str THEN <<Head(incidents)>> ELSE <<>>)
         \o OnDate(Tail(incidents), date_str)

generate_incident_array(incidents, var_name) ==
    IF incidents = <<>> THEN <<Decl(var_name), Close>>
    ELSE LET days == SortedSeq({strptime(incidents[i].incident_date) :
                                   i \in 1..Len(incidents)})
             lines == [k \in 1..Len(days) |->
                          IncidentLine(strftime(days[k]),
                                       OnDate(incidents, strftime(days[k])))]
         IN  <<Decl(var_name), Lines(lines), Close>>

RECURSIVE FleetLines(_)
FleetLines(fleet_snaps) ==
    IF fleet_snaps = <<>> THEN <<>>
    ELSE (IF TruthyCount(get(Head(fleet_snaps), "austin_vehicles"))
          THEN <<[date |-> Head(fleet_snaps).date,
                  size |-> Head(fleet_snaps).austin_vehicles]>>
          ELSE <<>>) \o FleetLines(Tail(fleet_snaps))

generate_fleet_data(fleet_snaps) ==
    <<Decl("fleetData"), Lines(FleetLines(fleet_snaps)), Close>>

DefaultActiveFleet == 46

RECURSIVE get_latest_active_fleet(_)
get_latest_active_fleet(fleet_snaps) ==
    IF fleet_snaps = <<>> THEN DefaultActiveFleet
    ELSE LET last == fleet_snaps[Len(fleet_snaps)]
         IN  IF TruthyCount(get(last, "austin_active_vehicles"))
             THEN last.austin_active_vehicles
             ELSE get_latest_active_fleet(SubSeq(fleet_snaps, 1, Len(fleet_snaps) - 1))

\* generate_all_filter_combinations, in the order of the replacements
ArrayNames ==
    <<"incidentDataBase", "incidentDataStationary", "incidentDataBacking",
      "incidentDataAll", "incidentDataActiveBase", "incidentDataActiveStationary",
      "incidentDataActiveBacking", "incidentDataActiveAll">>

generate_all_filter_combinations(analysis) ==
    LET total_incidents == analysis.incidents
        active_incidents == analysis.active_fleet.incidents
    IN  <<recalculate_mpi(filter_incidents(total_incidents, TRUE, TRUE)),
          recalculate_mpi(filter_incidents(total_incidents, TRUE, FALSE)),
          recalculate_mpi(filter_incidents(total_incidents, FALSE, TRUE)),
          recalculate_mpi(filter_incidents(total_incidents, FALSE, FALSE)),
          recalculate_mpi(filter_incidents(active_incidents, TRUE, TRUE)),
          recalculate_mpi(filter_incidents(active_incidents, TRUE, FALSE)),
          recalculate_mpi(filter_incidents(active_incidents, FALSE, TRUE)),
          recalculate_mpi(filter_incidents(active_incidents, FALSE, FALSE))>>

\* the positions where r'const NAME = \[[\s\S]*?\];' matches
ArrayMatches(var_name, content) ==
    {i \in 1..Len(content) :
        /\ content[i].token = "decl"
        /\ content[i].name = var_name
        /\ \E j \in (i + 1)..Len(content) : content[j].token = "close"}

Leftmost(S) == CHOOSE i \in S : \A j \in S : i <= j

\* a substitution that replaces the declaration alone and keeps the old body
re_sub_declaration_only(var_name, replacement, content) ==
    LET matches == ArrayMatches(var_name, content)
    IN  IF matches = {} THEN content
        ELSE LET i == Leftmost(matches)
             IN  SubSeq(content, 1, i - 1) \o replacement
                   \o SubSeq(content, i + 1, Len(content))

\* re.sub(r'const NAME = \[[\s\S]*?\];', replacement, content, count=1): the
\* leftmost declaration up to the first "];" after it
re_sub(var_name, replacement, content) ==
    LET matches == ArrayMatches(var_name, content)
    IN  IF matches = {} THEN content
        ELSE LET i == Leftmost(matches)
                 j == Leftmost({k \in (i + 1)..Len(content) :
                                   content[k].token = "close"})
             IN  SubSeq(content, 1, i - 1) \o replacement
                   \o SubSeq(content, j + 1, Len(content))

\* re.sub(r'const latestActiveFleetSize = \d+;', ..., content, count=1)
re_sub_size(latest_active, content) ==
    LET matches == {i \in 1..Len(content) : content[i].token = "size"}
    IN  IF matches = {} THEN content
        ELSE [content EXCEPT ![Leftmost(matches)] = Size(latest_active)]

\* the first n replacements of the incident arrays
RECURSIVE IncidentArraysReplaced(_, _, _)
IncidentArraysReplaced(combinations, n, content) ==
    IF n = 0 THEN content
    ELSE re_sub(ArrayNames[n],
                generate_incident_array(combinations[n], ArrayNames[n]),
                IncidentArraysReplaced(combinations, n - 1, content))

\* update_app_js up to the comparison: content after the ten replacements
update_app_js(original_content, analysis, fleet) ==
    LET combinations == generate_all_filter_combinations(analysis)
        incident_arrays == IncidentArraysReplaced(combinations, Len(ArrayNames),
                                                  original_content)
        latest_active == get_latest_active_fleet(fleet.snapshots)
    IN  re_sub("fleetData", generate_fleet_data(fleet.snapshots),
               re_sub_size(latest_active, incident_arrays))

(***************************************************************************)
(* Specification of update_app_js: app.js holds some of the declarations   *)
(* (one of its arrays may lack its "];"); update_app_js is called with an  *)
(* analysis and the fleet data as sync's main loads them (incidents and    *)
(* snapshots are not empty), then called again with the same data or with  *)
(* other data.  update_calls keeps, for every call, its arguments, how it  *)
(* ended and the content of app.js before and after.                       *)
(***************************************************************************)
MaxSyncIncidents == 2
MaxUpdates == 2
SyncDays == {1, 32}
CrashKinds == {"moving", "stationary", "backing"}

\* a record of analysis_results.json: incident i of a list, on day d, prev
\* being the day of the incident before it (or of the start of the service)
SyncIncident(i, d, prev, crash, miles_per_day) ==
    [incident_date        |-> strftime(d),
     days_since_previous  |-> d - prev,
     miles_since_previous |-> miles_per_day * (d - prev),
     mpi_since_previous   |-> miles_per_day * (d - prev),
     avg_fleet_size       |-> IF d = 1 THEN FloatOfNat(10) ELSE FloatDiv(25, 2),
     cumulative_miles     |-> miles_per_day * d,
     cumulative_incidents |-> i,
     precrash_speed_mph   |-> IF crash = "moving" THEN 5 ELSE 0,
     precrash_movement    |-> IF crash = "moving" THEN "Proceeding Straight"
                              ELSE IF crash = "stationary" THEN "Stopped"
                              ELSE "Backing",
     roadway_type         |-> IF crash = "backing" THEN "Parking Lot" ELSE "Street"]

SyncIncidents(days, crashes, miles_per_day) ==
    [i \in 1..Len(days) |->
        SyncIncident(i, days[i], IF i = 1 THEN 0 ELSE days[i - 1], crashes[i],
                     miles_per_day)]

Analyses ==
    UNION {
        {[incidents    |-> SyncIncidents(days, crashes, 1000),
          active_fleet |-> [incidents |-> SyncIncidents(days, crashes, 500)]] :
            days \in {s \in [1..n -> SyncDays] :
                         \A i \in 1..(n - 1) : s[i] <= s[i + 1]},
            crashes \in {c \in [1..n -> CrashKinds] :
                            Cardinality({i \in 1..n : c[i] # "moving"}) <= 1}} :
        n \in 1..MaxSyncIncidents}

\* the analysis of a later day: one incident, in August
LaterAnalyses ==
    {a \in Analyses :
        /\ Len(a.incidents) = 1
        /\ a.incidents[1].incident_date = strftime(32)
        /\ a.incidents[1].precrash_movement = "Stopped"}

SyncFleets ==
    {[snapshots |-> <<TotalSnapshot(strftime(1), 10, Null)>>],
     [snapshots |-> <<setitem(TotalSnapshot(strftime(1), 10, Null),
                              "austin_active_vehicles", 7),
                      ActiveOnlySnapshot(strftime(2), 0, 3)>>]}

\* app.js: the arrays and the size that are declared, the last array with
\* or without its "];"
OldArray(var_name) == <<Decl(var_name), Text(0), Close>>

RECURSIVE OldArrays(_, _)
OldArrays(n, declared) ==
    IF n = 0 THEN <<>>
    ELSE OldArrays(n - 1, declared)
         \o (IF ArrayNames[n] \in declared THEN OldArray(ArrayNames[n]) ELSE <<>>)

AppJsFiles ==
    {<<Text(1)>>
       \o (IF "fleetData" \in declared
           THEN IF closed THEN OldArray("fleetData") ELSE <<Decl("fleetData"), Text(0)>>
           ELSE <<>>)
       \o OldArrays(Len(ArrayNames), declared)
       \o (IF "latestActiveFleetSize" \in declared THEN <<Size(DefaultActiveFleet)>>
           ELSE <<>>)
       \o <<Text(2)>> :
        declared \in {D \cup E :
                        D \in SUBSET {"fleetData", "latestActiveFleetSize"},
                        E \in {{}, {ArrayNames[n] : n \in 1..Len(ArrayNames)}}},
        closed \in BOOLEAN}

InitSync ==
    /\ app_js \in AppJsFiles
    /\ update_calls = <<>>
    /\ fleet_data_file = Idle
    /\ merge_calls = Idle
    /\ extraction = Idle
    /\ NoMain
    /\ fleet_snapshots = Idle
    /\ field = Idle
    /\ snapshots = Idle
    /\ fleet_size = EmptyMap
    /\ excluded_dates = {}
    /\ daily_miles = 0
    /\ period_args = Idle
    /\ period = EmptyMap
    /\ service_start = 0
    /\ incidents_df = Idle
    /\ results = Idle

\* what open(app_js_path, 'w') and f.write(content) can leave: the content,
\* or after an OSError the file as it was (open failed) or an empty one
Written(original_content, content) ==
    {[raised |-> FALSE, app_js |-> content],
     [raised |-> TRUE, app_js |-> original_content],
     [raised |-> TRUE, app_js |-> <<>>]}

\* one call update_app_js(app_js_path, analysis, fleet)
UpdateAppJs(analysis, fleet) ==
    /\ Len(update_calls) < MaxUpdates
    /\ LET content == update_app_js(app_js, analysis, fleet)
       IN  \E written \in IF content = app_js
                          THEN {[raised |-> FALSE, app_js |-> app_js]}
                          ELSE Written(app_js, content) :
              /\ app_js' = written.app_js
              /\ update_calls' =
                    Append(update_calls,
                           [analysis |-> analysis,
                            fleet    |-> fleet,
                            raised   |-> written.raised,
                            returned |-> ~written.raised /\ content # app_js,
                            before   |-> app_js,
                            after    |-> written.app_js])
    /\ UNCHANGED <<fleet_snapshots, field, snapshots, excluded_dates, daily_miles,
                   fleet_size, period_args, period, service_start, incidents_df,
                   results, analyzer, trend_call, main, output_file,
                   fleet_data_file, merge_calls, extraction>>

FirstUpdate ==
    /\ update_calls = <<>>
    /\ \E analysis \in Analyses, fleet \in SyncFleets : UpdateAppJs(analysis, fleet)

\* sync runs again on the same analysis_results.json and fleet_data.json
SameUpdate ==
    /\ update_calls # <<>>
    /\ UpdateAppJs(update_calls[Len(update_calls)].analysis,
                   update_calls[Len(update_calls)].fleet)

\* sync runs again after a further incident was analysed
LaterUpdate ==
    /\ update_calls # <<>>
    /\ \E analysis \in LaterAnalyses, fleet \in SyncFleets :
          UpdateAppJs(analysis, fleet)

NextSync == FirstUpdate \/ SameUpdate \/ LaterUpdate

SpecSync == InitSync /\ [][NextSync]_vars

\* a data array is declared in the text
DeclaresArray(content) == \E i \in 1..Len(content) : content[i].token = "decl"

\* an array or latestActiveFleetSize is declared in the text
DeclaresData(content) ==
    \E i \in 1..Len(content) : content[i].token \in {"decl", "size"}

\* a call that returned says True exactly when it changed app.js, and a call
\* that follows a returned call with the same analysis and fleet data
\* returns False and leaves app.js as it is
ChangeReported ==
    /\ \A i \in 1..Len(update_calls) :
          ~update_calls[i].raised =>
              (update_calls[i].returned <=> update_calls[i].after # update_calls[i].before)
    /\ \A i \in 1..(Len(update_calls) - 1) :
          (/\ ~update_calls[i].raised
           /\ update_calls[i + 1].analysis = update_calls[i].analysis
           /\ update_calls[i + 1].fleet = update_calls[i].fleet) =>
              /\ ~update_calls[i + 1].raised
              /\ ~update_calls[i + 1].returned
              /\ update_calls[i + 1].after = update_calls[i + 1].before

\* C30 as stated: update_app_js returns True exactly when it changed app.js;
\* a second run with the same analysis and fleet data returns False and
\* leaves app.js untouched; when no data array is declared in app.js it
\* writes nothing and returns False.
C30_UpdateReportsChange ==
    /\ ChangeReported
    /\ \A i \in 1..Len(update_calls) :
          ~DeclaresArray(update_calls[i].before) =>
              /\ ~update_calls[i].raised
              /\ ~update_calls[i].returned
              /\ update_calls[i].after = update_calls[i].before

\* C30 amended: the same, the last part for an app.js that declares neither
\* a data array nor latestActiveFleetSize.
C30_UpdateReportsChangeOfDeclared ==
    /\ ChangeReported
    /\ \A i \in 1..Len(update_calls) :
          ~DeclaresData(update_calls[i].before) =>
              /\ ~update_calls[i].raised
              /\ ~update_calls[i].returned
              /\ update_calls[i].after = update_calls[i].before

\* a first run changed app.js and returned True, the second run with the same
\* data returned False; the text had an array without its "];"
C30_Witness ==
    /\ Len(update_calls) = 2
    /\ update_calls[1].returned
    /\ Len(update_calls[1].before) >= 4
    /\ update_calls[1].before[2].token = "decl"
    /\ update_calls[1].before[4].token = "decl"
    /\ update_calls[2].analysis = update_calls[1].analysis
    /\ update_calls[2].fleet = update_calls[1].fleet
    /\ ~update_calls[2].returned
    /\ ~update_calls[2].raised

====
